---- MODULE Spec2Model ----
(***************************************************************************)
(* A model of the agentic analysis pipeline of Stallion Analytics:         *)
(* the Response Interpreter (StallionCopilot._clean_json), the Copilot's   *)
(* reasoning loop (process_query), the Investigation Planner               *)
(* (generate_enterprise_report), the workspace store (StallionWorkspace)   *)
(* and the what-if growth ramp of StallionForecaster.generate_forecast.    *)
(*                                                                         *)
(* Texts are sequences of one-character strings, so that the code's        *)
(* character-level operations (replace, strip, find, rfind, slicing,       *)
(* json.loads) are computed rather than assumed.                           *)
(***************************************************************************)
EXTENDS Integers, Sequences, FiniteSets, TLC

(***************************************************************************)
(* Python text primitives                                                  *)
(***************************************************************************)

\* str.strip() / json whitespace: space, tab, newline, carriage return.
Whitespace == {" ", "\t", "\n", "\r"}

\* s[a:b] for 0 <= a, 0 <= b (Python slice, 0-based, end exclusive).
Slice(s, a, b) == SubSeq(s, a + 1, IF b > Len(s) THEN Len(s) ELSE b)

\* s.startswith(pat, i) with a 0-based offset i.
StartsAt(s, pat, i) ==
    /\ i + Len(pat) <= Len(s)
    /\ SubSeq(s, i + 1, i + Len(pat)) = pat

\* pat in s
Contains(s, pat) == \E i \in 0..Len(s) : StartsAt(s, pat, i)

\* s.find(pat) for a pat that occurs in s: the 0-based index of its first occurrence.
FirstAt(s, pat) ==
    CHOOSE i \in 0..Len(s) : StartsAt(s, pat, i) /\ \A j \in 0..(i - 1) : ~StartsAt(s, pat, j)

\* s.replace(pat, ""): leftmost, non-overlapping occurrences removed.
RECURSIVE RemoveAll(_, _)
RemoveAll(s, pat) ==
    IF Len(pat) = 0 \/ ~Contains(s, pat) THEN s
    ELSE Slice(s, 0, FirstAt(s, pat))
         \o RemoveAll(Slice(s, FirstAt(s, pat) + Len(pat), Len(s)), pat)

RECURSIVE LStrip(_)
LStrip(s) == IF s # <<>> /\ Head(s) \in Whitespace THEN LStrip(Tail(s)) ELSE s

RECURSIVE RStrip(_)
RStrip(s) ==
    IF s # <<>> /\ s[Len(s)] \in Whitespace
    THEN RStrip(SubSeq(s, 1, Len(s) - 1)) ELSE s

\* str.strip()
Strip(s) == RStrip(LStrip(s))

\* str.find(c): 0-based index of the first occurrence, -1 when absent.
Find(s, c) ==
    IF \E i \in 1..Len(s) : s[i] = c
    THEN (CHOOSE i \in 1..Len(s) : s[i] = c /\ \A j \in 1..(i - 1) : s[j] # c) - 1
    ELSE -1

\* str.rfind(c): 0-based index of the last occurrence, -1 when absent.
RFind(s, c) ==
    IF \E i \in 1..Len(s) : s[i] = c
    THEN (CHOOSE i \in 1..Len(s) : s[i] = c /\ \A j \in (i + 1)..Len(s) : s[j] # c) - 1
    ELSE -1

(***************************************************************************)
(* json.loads (the standard decoder), on the grammar the model's texts use: *)
(* objects, arrays, strings without escapes, unsigned integers and the     *)
(* literals true, false, null.  A result is                                *)
(*   [ok |-> TRUE,  val |-> value, pos |-> index after the value]  or       *)
(*   [ok |-> FALSE, msg |-> JSONDecodeError message, pos |-> its position]. *)
(* Values are tagged tuples: <<"obj", pairs>>, <<"arr", items>>,           *)
(* <<"str", chars>>, <<"num", digits>>, <<"lit", name>>.                   *)
(***************************************************************************)
Digits == {"0", "1", "2", "3", "4", "5", "6", "7", "8", "9"}

\* The messages of json.JSONDecodeError.
MsgUnterminated ==
    <<"U", "n", "t", "e", "r", "m", "i", "n", "a", "t", "e", "d", " ", "s", "t", "r", "i", "n", "g", " ", "s", "t", "a", "r", "t", "i", "n", "g", " ", "a", "t">>

MsgControlChar ==
    <<"I", "n", "v", "a", "l", "i", "d", " ", "c", "o", "n", "t", "r", "o", "l", " ", "c", "h", "a", "r", "a", "c", "t", "e", "r", " ", "a", "t">>

MsgColon ==
    <<"E", "x", "p", "e", "c", "t", "i", "n", "g", " ", "'", ":", "'", " ", "d", "e", "l", "i", "m", "i", "t", "e", "r">>

MsgComma ==
    <<"E", "x", "p", "e", "c", "t", "i", "n", "g", " ", "'", ",", "'", " ", "d", "e", "l", "i", "m", "i", "t", "e", "r">>

MsgPropertyName ==
    <<"E", "x", "p", "e", "c", "t", "i", "n", "g", " ", "p", "r", "o", "p", "e", "r", "t", "y", " ", "n", "a", "m", "e", " ", "e", "n", "c", "l", "o", "s", "e", "d", " ", "i", "n", " ", "d", "o", "u", "b", "l", "e", " ", "q", "u", "o", "t", "e", "s">>

MsgExpectingValue ==
    <<"E", "x", "p", "e", "c", "t", "i", "n", "g", " ", "v", "a", "l", "u", "e">>

MsgExtraData ==
    <<"E", "x", "t", "r", "a", " ", "d", "a", "t", "a">>

Ok(v, p) == [ok |-> TRUE, val |-> v, msg |-> <<>>, pos |-> p]

Err(m, p) == [ok |-> FALSE, val |-> <<>>, msg |-> m, pos |-> p]

\* 0-based character access; "" past the end (Python's s[end:end + 1]).
At(s, i) == IF i >= 0 /\ i < Len(s) THEN s[i + 1] ELSE ""

RECURSIVE SkipWs(_, _)
SkipWs(s, i) == IF At(s, i) \in Whitespace THEN SkipWs(s, i + 1) ELSE i

\* py_scanstring without escapes: i is the index after the opening quote.
\* The scan stops at the first closing quote or control character.
ScanString(s, i, begin) ==
    LET stops == {j \in i..(Len(s) - 1) : At(s, j) \in {"\"", "\n", "\t", "\r"}}
        stop == CHOOSE j \in stops : \A k \in stops : j <= k
    IN IF stops = {} THEN Err(MsgUnterminated, begin)
       ELSE IF At(s, stop) = "\"" THEN Ok(<<"str", Slice(s, begin + 1, stop)>>, stop + 1)
       ELSE Err(MsgControlChar, stop)

RECURSIVE ScanDigits(_, _)
ScanDigits(s, i) == IF At(s, i) \in Digits THEN ScanDigits(s, i + 1) ELSE i

LitTrue == <<"t", "r", "u", "e">>

LitFalse == <<"f", "a", "l", "s", "e">>

LitNull == <<"n", "u", "l", "l">>

\* dict[key] = value: a repeated key keeps its place and takes the new value.
DictPut(pairs, k, v) ==
    IF \E n \in 1..Len(pairs) : pairs[n][1] = k
    THEN [n \in 1..Len(pairs) |-> IF pairs[n][1] = k THEN <<k, v>> ELSE pairs[n]]
    ELSE Append(pairs, <<k, v>>)

RECURSIVE ScanOnce(_, _)
RECURSIVE ScanMembers(_, _, _)
RECURSIVE ScanItems(_, _, _)

\* JSONObject's loop: i is at the opening quote of the next key.
ScanMembers(s, i, pairs) ==
    LET key == ScanString(s, i + 1, i) IN
    IF ~key.ok THEN key
    ELSE LET c == SkipWs(s, key.pos) IN
         IF At(s, c) # ":" THEN Err(MsgColon, c)
         ELSE LET v == ScanOnce(s, SkipWs(s, c + 1)) IN
              IF ~v.ok THEN v
              ELSE LET e == SkipWs(s, v.pos)
                       acc == DictPut(pairs, key.val[2], v.val)
                   IN IF At(s, e) = "}" THEN Ok(<<"obj", acc>>, e + 1)
                      ELSE IF At(s, e) # "," THEN Err(MsgComma, e)
                      ELSE LET n == SkipWs(s, e + 1) IN
                           IF At(s, n) # "\""
                           THEN Err(MsgPropertyName, n)
                           ELSE ScanMembers(s, n, acc)

\* JSONArray's loop: i is at the start of the next item.
ScanItems(s, i, items) ==
    LET v == ScanOnce(s, i) IN
    IF ~v.ok THEN v
    ELSE LET e == SkipWs(s, v.pos)
             acc == Append(items, v.val)
         IN IF At(s, e) = "]" THEN Ok(<<"arr", acc>>, e + 1)
            ELSE IF At(s, e) # "," THEN Err(MsgComma, e)
            ELSE ScanItems(s, SkipWs(s, e + 1), acc)

\* scanner.py_make_scanner's _scan_once
ScanOnce(s, i) ==
    LET c == At(s, i) IN
    IF c = "" THEN Err(MsgExpectingValue, i)
    ELSE IF c = "\"" THEN ScanString(s, i + 1, i)
    ELSE IF c = "{" THEN
        LET n == SkipWs(s, i + 1) IN
        IF At(s, n) = "}" THEN Ok(<<"obj", <<>>>>, n + 1)
        ELSE IF At(s, n) # "\""
             THEN Err(MsgPropertyName, n)
             ELSE ScanMembers(s, n, <<>>)
    ELSE IF c = "[" THEN
        LET n == SkipWs(s, i + 1) IN
        IF At(s, n) = "]" THEN Ok(<<"arr", <<>>>>, n + 1)
        ELSE ScanItems(s, n, <<>>)
    ELSE IF StartsAt(s, LitNull, i) THEN Ok(<<"lit", "null">>, i + 4)
    ELSE IF StartsAt(s, LitTrue, i) THEN Ok(<<"lit", "true">>, i + 4)
    ELSE IF StartsAt(s, LitFalse, i) THEN Ok(<<"lit", "false">>, i + 5)
    ELSE IF c \in Digits THEN
        LET e == ScanDigits(s, i) IN Ok(<<"num", Slice(s, i, e)>>, e)
    ELSE Err(MsgExpectingValue, i)

\* JSONDecoder.decode: one value, then only whitespace.
JsonLoads(s) ==
    LET r == ScanOnce(s, SkipWs(s, 0)) IN
    IF ~r.ok THEN r
    ELSE LET e == SkipWs(s, r.pos) IN
         IF e # Len(s) THEN Err(MsgExtraData, e) ELSE r

(***************************************************************************)
(* The Response Interpreter                                                *)
(***************************************************************************)
\* The backquote character, U+0060 (a TLA+ string cannot hold it, so the model
\* writes it as this character, which occurs in no other role).
BQ == "^"

\* "```json"
FenceJson == <<BQ, BQ, BQ, "j", "s", "o", "n">>

\* "```"
Fence == <<BQ, BQ, BQ>>

\* A faulty interpreter: the fences stripped but no span cut out, so prose around
\* the object reaches the parser.
CleanSpanWithoutCut(text) == Strip(RemoveAll(RemoveAll(text, FenceJson), Fence))

\* The text _clean_json hands to json.loads.
CleanSpan(text) ==
    LET clean == Strip(RemoveAll(RemoveAll(text, FenceJson), Fence))
        start == Find(clean, "{")
        end == RFind(clean, "}") + 1
    IN IF start # -1 /\ end # -1 THEN Slice(clean, start, end) ELSE clean

\* StallionCopilot._clean_json: the parsed value, or the raised JSONDecodeError.
CleanJson(text) == JsonLoads(CleanSpan(text))

(***************************************************************************)
(* Gateways.  The Language Model Gateway (StallionCopilot._call_ai) either *)
(* returns a text or raises; the Query Gateway (StallionDB.run_query)      *)
(* never raises: it returns (rows, none) or (an empty table, error text).  *)
(***************************************************************************)
\* str(e) of the exception a failed _call_ai raises
LlmErrorText ==
    <<"A", "P", "I", " ", "u", "n", "a", "v", "a", "i", "l", "a", "b", "l", "e">>

\* str(e) of the exception a failed conn.execute raises
DbErrorText ==
    <<"P", "a", "r", "s", "e", "r", " ", "E", "r", "r", "o", "r">>

\* str(e) of the ImportError DataFrame.to_markdown raises
RenderErrorText ==
    <<"M", "i", "s", "s", "i", "n", "g", " ", "o", "p", "t", "i", "o", "n", "a", "l", " ", "d", "e", "p", "e", "n", "d", "e", "n", "c", "y", " ", "'", "t", "a", "b", "u", "l", "a", "t", "e", "'">>

\* None (no character sequence equals it)
None == <<"None">>

\* What conn.execute(sql).df() does: raise, or a table of nrows x ncols.
DbOutcomes ==
    { [raises |-> TRUE, nrows |-> 0, ncols |-> 0],
      [raises |-> FALSE, nrows |-> 0, ncols |-> 2],
      [raises |-> FALSE, nrows |-> 3, ncols |-> 1],
      [raises |-> FALSE, nrows |-> 12, ncols |-> 2] }

\* StallionDB.run_query: (df, err)
RunQuery(o) ==
    IF o.raises
    THEN [nrows |-> 0, ncols |-> 0, err |-> DbErrorText]
    ELSE [nrows |-> o.nrows, ncols |-> o.ncols, err |-> None]

\* df.empty
DfEmpty(df) == df.nrows = 0 \/ df.ncols = 0

(***************************************************************************)
(* Text helpers of the Copilot                                             *)
(***************************************************************************)
\* 'abcdefghijklmnopqrstuvwxyz'
LowerLetters ==
    <<"a", "b", "c", "d", "e", "f", "g", "h", "i", "j", "k", "l", "m", "n", "o", "p", "q", "r", "s", "t", "u", "v", "w", "x", "y", "z">>

\* 'ABCDEFGHIJKLMNOPQRSTUVWXYZ'
UpperLetters ==
    <<"A", "B", "C", "D", "E", "F", "G", "H", "I", "J", "K", "L", "M", "N", "O", "P", "Q", "R", "S", "T", "U", "V", "W", "X", "Y", "Z">>

LetterIndex(alphabet, c) == CHOOSE i \in 1..Len(alphabet) : alphabet[i] = c

\* str.upper()
Upper(s) ==
    [i \in 1..Len(s) |->
        IF \E k \in 1..Len(LowerLetters) : LowerLetters[k] = s[i]
        THEN UpperLetters[LetterIndex(LowerLetters, s[i])] ELSE s[i]]

\* str.lower()
Lower(s) ==
    [i \in 1..Len(s) |->
        IF \E k \in 1..Len(UpperLetters) : UpperLetters[k] = s[i]
        THEN LowerLetters[LetterIndex(UpperLetters, s[i])] ELSE s[i]]

DigitSeq == <<"0", "1", "2", "3", "4", "5", "6", "7", "8", "9">>

\* str(n) for n >= 0
RECURSIVE IntStr(_)
IntStr(n) ==
    IF n < 10 THEN <<DigitSeq[n + 1]>>
    ELSE IntStr(n \div 10) \o <<DigitSeq[(n % 10) + 1]>>

\* doc.count("\n", 0, pos)
NewlinesBefore(doc, pos) == Cardinality({i \in 1..pos : i <= Len(doc) /\ doc[i] = "\n"})

\* JSONDecodeError.colno: pos - doc.rindex("\n", 0, pos), or pos + 1 on line 1.
ColNo(doc, pos) ==
    IF NewlinesBefore(doc, pos) = 0 THEN pos + 1
    ELSE pos - (RFind(Slice(doc, 0, pos), "\n"))

\* ': line '
TxtLine ==
    <<":", " ", "l", "i", "n", "e", " ">>

\* ' column '
TxtColumn ==
    <<" ", "c", "o", "l", "u", "m", "n", " ">>

\* ' (char '
TxtChar ==
    <<" ", "(", "c", "h", "a", "r", " ">>

\* str(e) of the JSONDecodeError json.loads(doc) raised with result r.
DecodeErrorStr(doc, r) ==
    r.msg \o TxtLine \o IntStr(NewlinesBefore(doc, r.pos) + 1)
          \o TxtColumn \o IntStr(ColNo(doc, r.pos))
          \o TxtChar \o IntStr(r.pos) \o <<")">>

\* 'SELECT'
KwSelect ==
    <<"S", "E", "L", "E", "C", "T">>

\* 'ACTION'
KwAction ==
    <<"A", "C", "T", "I", "O", "N">>

\* 'UPDATE_DASHBOARD'
KwUpdateDashboard ==
    <<"U", "P", "D", "A", "T", "E", "_", "D", "A", "S", "H", "B", "O", "A", "R", "D">>

\* 'SUMMARIZE'
KwSummarize ==
    <<"S", "U", "M", "M", "A", "R", "I", "Z", "E">>

\* '```sql'
FenceSql ==
    <<"^", "^", "^", "s", "q", "l">>

\* 'response_type'
KeyResponseType ==
    <<"r", "e", "s", "p", "o", "n", "s", "e", "_", "t", "y", "p", "e">>

\* 'content'
KeyContent ==
    <<"c", "o", "n", "t", "e", "n", "t">>

\* 'suggestions'
KeySuggestions ==
    <<"s", "u", "g", "g", "e", "s", "t", "i", "o", "n", "s">>

\* 'text_answer'
TextAnswer ==
    <<"t", "e", "x", "t", "_", "a", "n", "s", "w", "e", "r">>

\* 'update_dashboard'
UpdateDashboard ==
    <<"u", "p", "d", "a", "t", "e", "_", "d", "a", "s", "h", "b", "o", "a", "r", "d">>

\* 'update_executive_summary'
UpdateExecutiveSummary ==
    <<"u", "p", "d", "a", "t", "e", "_", "e", "x", "e", "c", "u", "t", "i", "v", "e", "_", "s", "u", "m", "m", "a", "r", "y">>

\* 'Reasoning Error: '
ReasoningErrorPrefix ==
    <<"R", "e", "a", "s", "o", "n", "i", "n", "g", " ", "E", "r", "r", "o", "r", ":", " ">>

\* '. (I tried to think but failed.)'
ReasoningErrorSuffix ==
    <<".", " ", "(", "I", " ", "t", "r", "i", "e", "d", " ", "t", "o", " ", "t", "h", "i", "n", "k", " ", "b", "u", "t", " ", "f", "a", "i", "l", "e", "d", ".", ")">>

\* 'Try simpler query'
TrySimplerQuery ==
    <<"T", "r", "y", " ", "s", "i", "m", "p", "l", "e", "r", " ", "q", "u", "e", "r", "y">>

(***************************************************************************)
(* Texts the language model returns in the model's runs.                   *)
(***************************************************************************)
\* 'ACTION: UPDATE_DASHBOARD'
InvUpdateDashboard ==
    <<"A", "C", "T", "I", "O", "N", ":", " ", "U", "P", "D", "A", "T", "E", "_", "D", "A", "S", "H", "B", "O", "A", "R", "D">>

\* 'ACTION: SUMMARIZE'
InvSummarize ==
    <<"A", "C", "T", "I", "O", "N", ":", " ", "S", "U", "M", "M", "A", "R", "I", "Z", "E">>

\* 'SELECT 1'
InvSql ==
    <<"S", "E", "L", "E", "C", "T", " ", "1">>

\* '```sql\nselect 1\n```'
InvSqlFenced ==
    <<"^", "^", "^", "s", "q", "l", "\n", "s", "e", "l", "e", "c", "t", " ", "1", "\n", "^", "^", "^">>

\* 'I am not sure'
InvOther ==
    <<"I", " ", "a", "m", " ", "n", "o", "t", " ", "s", "u", "r", "e">>

\* 'SELECT ACTION FROM t'
InvSelectAction ==
    <<"S", "E", "L", "E", "C", "T", " ", "A", "C", "T", "I", "O", "N", " ", "F", "R", "O", "M", " ", "t">>

\* 'Action: summarize'
InvActionLower ==
    <<"A", "c", "t", "i", "o", "n", ":", " ", "s", "u", "m", "m", "a", "r", "i", "z", "e">>

InvestigatorTexts ==
    {InvUpdateDashboard, InvSummarize, InvSql, InvSqlFenced, InvOther, InvSelectAction, InvActionLower}

\* '{"response_type":"text_answer","content":"ok","suggestions":[]}'
RespTextAnswer ==
    <<"{", "\"", "r", "e", "s", "p", "o", "n", "s", "e", "_", "t", "y", "p", "e", "\"", ":", "\"", "t", "e", "x", "t", "_", "a", "n", "s", "w", "e", "r", "\"", ",", "\"", "c", "o", "n", "t", "e", "n", "t", "\"", ":", "\"", "o", "k", "\"", ",", "\"", "s", "u", "g", "g", "e", "s", "t", "i", "o", "n", "s", "\"", ":", "[", "]", "}">>

\* '```json\n{"response_type":"update_dashboard","content":{},"suggestions":["a"]}\n```'
RespDashboardFenced ==
    <<"^", "^", "^", "j", "s", "o", "n", "\n", "{", "\"", "r", "e", "s", "p", "o", "n", "s", "e", "_", "t", "y", "p", "e", "\"", ":", "\"", "u", "p", "d", "a", "t", "e", "_", "d", "a", "s", "h", "b", "o", "a", "r", "d", "\"", ",", "\"", "c", "o", "n", "t", "e", "n", "t", "\"", ":", "{", "}", ",", "\"", "s", "u", "g", "g", "e", "s", "t", "i", "o", "n", "s", "\"", ":", "[", "\"", "a", "\"", "]", "}", "\n", "^", "^", "^">>

\* 'Here {"response_type":"update_executive_summary","content":"h","suggestions":[]} done'
RespSummaryProse ==
    <<"H", "e", "r", "e", " ", "{", "\"", "r", "e", "s", "p", "o", "n", "s", "e", "_", "t", "y", "p", "e", "\"", ":", "\"", "u", "p", "d", "a", "t", "e", "_", "e", "x", "e", "c", "u", "t", "i", "v", "e", "_", "s", "u", "m", "m", "a", "r", "y", "\"", ",", "\"", "c", "o", "n", "t", "e", "n", "t", "\"", ":", "\"", "h", "\"", ",", "\"", "s", "u", "g", "g", "e", "s", "t", "i", "o", "n", "s", "\"", ":", "[", "]", "}", " ", "d", "o", "n", "e">>

\* 'The answer is 42.'
RespProse ==
    <<"T", "h", "e", " ", "a", "n", "s", "w", "e", "r", " ", "i", "s", " ", "4", "2", ".">>

\* ''
RespEmpty ==
    <<>>

\* '{"response_type":"chart","content":"x","suggestions":[]}'
RespUnknownType ==
    <<"{", "\"", "r", "e", "s", "p", "o", "n", "s", "e", "_", "t", "y", "p", "e", "\"", ":", "\"", "c", "h", "a", "r", "t", "\"", ",", "\"", "c", "o", "n", "t", "e", "n", "t", "\"", ":", "\"", "x", "\"", ",", "\"", "s", "u", "g", "g", "e", "s", "t", "i", "o", "n", "s", "\"", ":", "[", "]", "}">>

\* '[1]'
RespArray ==
    <<"[", "1", "]">>

\* '42'
RespNumber ==
    <<"4", "2">>

\* '{"content":"x"}'
RespMissingFields ==
    <<"{", "\"", "c", "o", "n", "t", "e", "n", "t", "\"", ":", "\"", "x", "\"", "}">>

\* '{"response_type":"text_answer","content":"o'
RespTruncated ==
    <<"{", "\"", "r", "e", "s", "p", "o", "n", "s", "e", "_", "t", "y", "p", "e", "\"", ":", "\"", "t", "e", "x", "t", "_", "a", "n", "s", "w", "e", "r", "\"", ",", "\"", "c", "o", "n", "t", "e", "n", "t", "\"", ":", "\"", "o">>

\* 'ok\n{"response_type": "text_answer",\n "content": ?}'
RespTwoLines ==
    <<"o", "k", "\n", "{", "\"", "r", "e", "s", "p", "o", "n", "s", "e", "_", "t", "y", "p", "e", "\"", ":", " ", "\"", "t", "e", "x", "t", "_", "a", "n", "s", "w", "e", "r", "\"", ",", "\n", " ", "\"", "c", "o", "n", "t", "e", "n", "t", "\"", ":", " ", "?", "}">>

ResponderTexts ==
    {RespTextAnswer,
     RespDashboardFenced,
     RespSummaryProse,
     RespProse,
     RespEmpty,
     RespUnknownType,
     RespArray,
     RespNumber,
     RespMissingFields,
     RespTruncated,
     RespTwoLines}

(***************************************************************************)
(* StallionCopilot.process_query                                           *)
(***************************************************************************)
VARIABLES
    cp_pc,      \* "off", "investigate", "execute", "respond", "returned", "raised"
    cp_query,   \* user_query
    cp_pre,     \* pre_response
    cp_action,  \* action_type
    cp_data,    \* data_context
    cp_err,     \* err, the error text run_query returned, or None
    cp_calls,   \* the gateway calls made so far, in order
    cp_prompt,  \* the fields interpolated into system_prompt
    cp_raw,     \* final_response, or None
    cp_result   \* <<"none">>, <<"return", value>> or <<"raise", str(e)>>

cpVars == <<cp_pc, cp_query, cp_pre, cp_action, cp_data, cp_err, cp_calls, cp_prompt, cp_raw,
            cp_result>>

Queries == {"Which stock is most volatile?", "Show sales by region"}

\* head(10)
PreviewRows == 10

NoData == [kind |-> "none", sql |-> <<>>, rows |-> 0, err |-> <<>>]

\* A faulty fallback: the envelope typed "error", a type no consumer knows.
FallbackTypedError(errText) ==
    <<"obj",
      << <<KeyResponseType, <<"str", <<"e", "r", "r", "o", "r">>>>>>,
         <<KeyContent, <<"str", ReasoningErrorPrefix \o errText \o ReasoningErrorSuffix>>>>,
         <<KeySuggestions, <<"arr", << <<"str", TrySimplerQuery>> >> >>>> >> >>

\* The except clause of the Respond phase: the fallback envelope for str(e).
FallbackEnvelope(errText) ==
    <<"obj",
      << <<KeyResponseType, <<"str", TextAnswer>>>>,
         <<KeyContent, <<"str", ReasoningErrorPrefix \o errText \o ReasoningErrorSuffix>>>>,
         <<KeySuggestions, <<"arr", << <<"str", TrySimplerQuery>> >> >>>> >> >>

\* A faulty test: every investigator output is taken for SQL.
WantsSqlAlways(pre) == TRUE

\* "SELECT" in pre_response.upper() and "ACTION" not in pre_response
WantsSql(pre) == Contains(Upper(pre), KwSelect) /\ ~Contains(pre, KwAction)

\* pre_response.replace("```sql", "").replace("```", "").strip()
CleanSql(pre) == Strip(RemoveAll(RemoveAll(pre, FenceSql), Fence))

\* data_context after the Execute phase, for database outcome o; renders is
\* whether DataFrame.to_markdown succeeds.
ExecuteData(pre, o, renders) ==
    LET res == RunQuery(o) IN
    IF ~WantsSql(pre) THEN NoData
    ELSE IF DfEmpty(res) THEN [kind |-> "no_results", sql |-> <<>>, rows |-> 0, err |-> <<>>]
    ELSE IF renders
         THEN [kind |-> "preview", sql |-> CleanSql(pre),
               rows |-> IF res.nrows < PreviewRows THEN res.nrows ELSE PreviewRows,
               err |-> <<>>]
         ELSE [kind |-> "error", sql |-> <<>>, rows |-> 0, err |-> RenderErrorText]

\* action_type after the Execute phase
ExecuteAction(pre) ==
    IF WantsSql(pre) THEN "text_answer"
    ELSE IF Contains(pre, KwUpdateDashboard) THEN "update_dashboard"
    ELSE IF Contains(pre, KwSummarize) THEN "summarize"
    ELSE "text_answer"

\* A faulty prompt: the action type is interpolated too.
SystemPromptWithAction(query, data, action) ==
    [schema |-> "schema_metadata", config |-> "current_config",
     focus |-> "focused_context", data |-> data, query |-> query, action |-> action]

\* system_prompt, as the fields interpolated into it; action_type is not one
\* of them.
SystemPrompt(query, data, action) ==
    [schema |-> "schema_metadata", config |-> "current_config",
     focus |-> "focused_context", data |-> data, query |-> query]

\* What the try block of the Respond phase yields for the model's raw text.
RespondValue(raw) ==
    LET r == CleanJson(raw) IN
    IF r.ok THEN r.val ELSE FallbackEnvelope(DecodeErrorStr(CleanSpan(raw), r))

InitCopilot ==
    /\ cp_pc = "investigate"
    /\ cp_query \in Queries
    /\ cp_pre = <<>>
    /\ cp_action = "text_answer"
    /\ cp_data = NoData
    /\ cp_err = None
    /\ cp_calls = <<>>
    /\ cp_prompt = <<>>
    /\ cp_raw = None
    /\ cp_result = <<"none">>

IdleCopilot ==
    /\ cp_pc = "off"
    /\ cp_query = ""
    /\ cp_pre = <<>>
    /\ cp_action = "text_answer"
    /\ cp_data = NoData
    /\ cp_err = None
    /\ cp_calls = <<>>
    /\ cp_prompt = <<>>
    /\ cp_raw = None
    /\ cp_result = <<"none">>

\* Step 1: pre_response = self._call_ai(investigator_prompt).strip()
CpInvestigate ==
    /\ cp_pc = "investigate"
    /\ cp_calls' = Append(cp_calls, <<"llm", "investigator">>)
    /\ \/ /\ cp_pc' = "raised"
          /\ cp_result' = <<"raise", LlmErrorText>>
          /\ UNCHANGED cp_pre
       \/ /\ \E t \in InvestigatorTexts : cp_pre' = Strip(t)
          /\ cp_pc' = "execute"
          /\ UNCHANGED cp_result
    /\ UNCHANGED <<cp_query, cp_action, cp_data, cp_err, cp_prompt, cp_raw>>

\* Step 2: run the emitted SQL, or classify the action.
CpExecute ==
    /\ cp_pc = "execute"
    /\ \E o \in DbOutcomes, renders \in BOOLEAN :
          /\ cp_data' = ExecuteData(cp_pre, o, renders)
          /\ cp_err' = IF WantsSql(cp_pre) THEN RunQuery(o).err ELSE None
          /\ cp_calls' = IF WantsSql(cp_pre)
                         THEN Append(cp_calls, <<"sql", CleanSql(cp_pre)>>)
                         ELSE cp_calls
    /\ cp_action' = ExecuteAction(cp_pre)
    /\ cp_prompt' = SystemPrompt(cp_query, cp_data', cp_action')
    /\ cp_pc' = "respond"
    /\ UNCHANGED <<cp_query, cp_pre, cp_raw, cp_result>>

\* A faulty Respond phase: a failed language-model call is made a second time.
CpRespondRetrying ==
    /\ cp_pc = "respond"
    /\ \/ /\ cp_calls' = cp_calls \o << <<"llm", "responder">>, <<"llm", "responder">> >>
          /\ cp_raw' = None
          /\ cp_result' = <<"return", FallbackEnvelope(LlmErrorText)>>
       \/ /\ cp_calls' = Append(cp_calls, <<"llm", "responder">>)
          /\ \E raw \in ResponderTexts :
                /\ cp_raw' = raw
                /\ cp_result' = <<"return", RespondValue(raw)>>
    /\ cp_pc' = "returned"
    /\ UNCHANGED <<cp_query, cp_pre, cp_action, cp_data, cp_err, cp_prompt>>

\* Step 3: final_response = self._call_ai(system_prompt); self._clean_json(...)
CpRespond ==
    /\ cp_pc = "respond"
    /\ cp_calls' = Append(cp_calls, <<"llm", "responder">>)
    /\ \/ /\ cp_raw' = None
          /\ cp_result' = <<"return", FallbackEnvelope(LlmErrorText)>>
       \/ \E raw \in ResponderTexts :
             /\ cp_raw' = raw
             /\ cp_result' = <<"return", RespondValue(raw)>>
    /\ cp_pc' = "returned"
    /\ UNCHANGED <<cp_query, cp_pre, cp_action, cp_data, cp_err, cp_prompt>>

(***************************************************************************)
(* JSON values                                                             *)
(***************************************************************************)
IsObject(v) == v[1] = "obj"

HasKey(v, k) == \E n \in 1..Len(v[2]) : v[2][n][1] = k

\* v[k] for a dict v holding k
ObjGet(v, k) == v[2][CHOOSE n \in 1..Len(v[2]) : v[2][n][1] = k][2]

(***************************************************************************)
(* The Response Interpreter applied to a bare object and to the same       *)
(* object inside a fenced block with prose around it.                      *)
(***************************************************************************)
VARIABLES
    ci_pc,       \* "off", "ready", "done"
    ci_obj,      \* the text of a valid JSON object
    ci_before,   \* the prose before the fenced block
    ci_after,    \* the prose after it
    ci_bare,     \* _clean_json(object)
    ci_wrapped   \* _clean_json(before + fence + object + fence + after)

ciVars == <<ci_pc, ci_obj, ci_before, ci_after, ci_bare, ci_wrapped>>

\* '{}'
ObjEmpty ==
    <<"{", "}">>

\* '{"a":{"b":[1,2]}}'
ObjNested ==
    <<"{", "\"", "a", "\"", ":", "{", "\"", "b", "\"", ":", "[", "1", ",", "2", "]", "}", "}">>

\* '{"k":"x}y{"}'
ObjBraceInString ==
    <<"{", "\"", "k", "\"", ":", "\"", "x", "}", "y", "{", "\"", "}">>

\* '{ "k" : "a```b" }'
ObjFenceInString ==
    <<"{", " ", "\"", "k", "\"", " ", ":", " ", "\"", "a", "^", "^", "^", "b", "\"", " ", "}">>

JsonObjects ==
    {ObjEmpty, ObjNested, ObjBraceInString, ObjFenceInString}

\* The longest prose, before and after together, the runs draw.
MaxProseLen == 3

ProseAlphabet == {"a", BQ, "{", "}"}

ProseOfLen(n) == [1..n -> ProseAlphabet]

\* The opening and closing markers of a fenced block.
FenceStyles ==
    { [open |-> FenceJson \o <<"\n">>, close |-> <<"\n">> \o Fence],
      [open |-> Fence, close |-> Fence] }

Wrap(before, style, obj, after) == before \o style.open \o obj \o style.close \o after

InitInterp ==
    /\ ci_pc = "ready"
    /\ ci_obj \in JsonObjects
    /\ \E n \in 0..MaxProseLen, m \in 0..MaxProseLen :
          /\ n + m <= MaxProseLen
          /\ ci_before \in ProseOfLen(n)
          /\ ci_after \in ProseOfLen(m)
    /\ ci_bare = None
    /\ ci_wrapped = None

IdleInterp ==
    /\ ci_pc = "off"
    /\ ci_obj = <<>>
    /\ ci_before = <<>>
    /\ ci_after = <<>>
    /\ ci_bare = None
    /\ ci_wrapped = None

CiParse ==
    /\ ci_pc = "ready"
    /\ \E style \in FenceStyles :
          ci_wrapped' = CleanJson(Wrap(ci_before, style, ci_obj, ci_after))
    /\ ci_bare' = CleanJson(ci_obj)
    /\ ci_pc' = "done"
    /\ UNCHANGED <<ci_obj, ci_before, ci_after>>

(***************************************************************************)
(* StallionWorkspace: the store is one JSON file holding a mapping from id *)
(* to record; every operation reads the whole file and save and delete     *)
(* write the whole file back.                                              *)
(***************************************************************************)
VARIABLES
    ws_file,    \* stallion_workspace.json: a function from ids to records
    ws_pc,      \* per session: "off", "idle", "save_read", "save_write", "delete_write"
    ws_local,   \* per session: the locals record, data and work_id of the running call
    ws_ret,     \* per session: what the last finished call returned
    ws_ops,     \* per session: the calls started so far
    ws_calls,   \* per session: the language-model calls made by save_work
    ws_hist     \* history: the file at the start; per session the record last saved, the
                \* file as last read, whether another session wrote since that read,
                \* and whether that was so at the session's last write; the last writer

wsVars == <<ws_file, ws_pc, ws_local, ws_ret, ws_ops, ws_calls, ws_hist>>

Sessions == {1, 2}

\* 'Q3 Sales'
NameQ3Sales ==
    <<"Q", "3", " ", "S", "a", "l", "e", "s">>

\* 'q3_sales'
NameQ3SalesId ==
    <<"q", "3", "_", "s", "a", "l", "e", "s">>

\* 'Churn'
NameChurn ==
    <<"C", "h", "u", "r", "n">>

\* The names a user types into "Dashboard Name".
Names ==
    {NameQ3Sales, NameQ3SalesId, NameChurn}

Descriptions == {"Investigate Q3 dip", "Churn by region"}

\* st.session_state.get("dashboard_config")
Configs == {"config A", "config B"}

\* dashboard_config is None: the session holds no dashboard yet
NoConfig == "None"

\* datetime.now().strftime("%Y-%m-%d %H:%M")
Times == {"2026-01-05 10:00"}

NoSummary == "No AI summary available."

\* ai_engine is absent, or its _call_ai raises, or it returns a summary.
AiOutcomes == {"absent", "raises", "returns"}

\* str.replace(" ", "_")
SpacesToUnderscores(s) == [i \in 1..Len(s) |-> IF s[i] = " " THEN "_" ELSE s[i]]

\* record["id"] = name.lower().replace(" ", "_")
WorkId(name) == SpacesToUnderscores(Lower(name))

\* context_signature["automated_summary"] after the guarded language-model call
AutomatedSummary(ai, config) ==
    IF ai = "returns" /\ config # NoConfig THEN "AI summary" ELSE NoSummary

\* The record save_work constructs.
MakeRecord(name, description, config, ai, now) ==
    [id |-> WorkId(name), name |-> name, created_at |-> now,
     description |-> description,
     context_signature |-> [intent |-> description,
                            automated_summary |-> AutomatedSummary(ai, config)],
     config |-> config]

\* {} (json.dump and json.load keep a mapping from strings to records of strings
\* as it is, so the file's content is the mapping itself)
EmptyStore == [k \in {} |-> None]

\* data[key] = value
StorePut(data, k, v) == [x \in (DOMAIN data) \cup {k} |-> IF x = k THEN v ELSE data[x]]

\* A faulty delete: every record goes with the one deleted.
StoreDelAll(data, k) == [x \in {} |-> data[x]]

\* del data[key]
StoreDel(data, k) == [x \in (DOMAIN data) \ {k} |-> data[x]]

\* An optional value that is present.
Some(v) == <<"some", v>>

\* data.get(key)
StoreGet(data, k) == IF k \in DOMAIN data THEN Some(data[k]) ELSE None

\* A faulty save: the assignment data[record["id"]] = record left out.
SavedDataWithoutRecord(data, record) == data

\* A faulty save: the file overwritten with the new record alone.
SavedDataOnlyRecord(data, record) == StorePut(EmptyStore, record.id, record)

\* save_work: data[record["id"]] = record, the mapping written back
SavedData(data, record) == StorePut(data, record.id, record)

\* load_work(work_id) on the file's content
LoadWork(data, work_id) == StoreGet(data, work_id)

\* A record saved in an earlier session.
OldRecord ==
    [id |-> WorkId(NameChurn), name |-> NameChurn, created_at |-> "2025-12-31 09:00",
     description |-> "Old churn study",
     context_signature |-> [intent |-> "Old churn study", automated_summary |-> NoSummary],
     config |-> "config A"]

\* The file when the sessions start: as _ensure_file_exists leaves a new file, or
\* as an earlier save left it.
InitialStores == {EmptyStore, StorePut(EmptyStore, OldRecord.id, OldRecord)}

NoLocals == [record |-> None, data |-> EmptyStore, work_id |-> None]

NoReturn == [op |-> "none", arg |-> <<>>, value |-> FALSE]

NoHistory ==
    [file0 |-> EmptyStore,
     args |-> [s \in Sessions |-> None],
     saved |-> [s \in Sessions |-> None],
     before |-> [s \in Sessions |-> EmptyStore],
     stale |-> [s \in Sessions |-> FALSE],
     lost |-> [s \in Sessions |-> FALSE],
     last |-> 0]

\* History after session s read the file.
HistRead(h, s, file) == [h EXCEPT !.before[s] = file, !.stale[s] = FALSE]

\* History after session s wrote the file: every other session's read is now stale.
HistWrite(h, s) ==
    [h EXCEPT !.stale = [t \in Sessions |-> IF t = s THEN FALSE ELSE TRUE],
              !.lost[s] = h.stale[s],
              !.last = s]

\* The workspace with the sessions of `active` open.
InitWorkspaceWith(active) ==
    /\ ws_file \in InitialStores
    /\ ws_pc = [s \in Sessions |-> IF s \in active THEN "idle" ELSE "off"]
    /\ ws_local = [s \in Sessions |-> NoLocals]
    /\ ws_ret = [s \in Sessions |-> NoReturn]
    /\ ws_ops = [s \in Sessions |-> 0]
    /\ ws_calls = [s \in Sessions |-> <<>>]
    /\ ws_hist = [NoHistory EXCEPT !.file0 = ws_file]

IdleWorkspace ==
    /\ ws_file = EmptyStore
    /\ ws_pc = [s \in Sessions |-> "off"]
    /\ ws_local = [s \in Sessions |-> NoLocals]
    /\ ws_ret = [s \in Sessions |-> NoReturn]
    /\ ws_ops = [s \in Sessions |-> 0]
    /\ ws_calls = [s \in Sessions |-> <<>>]
    /\ ws_hist = NoHistory

\* save_work up to "3. Write to Disk": the context signature and the record.
WsSaveStart(s, limit) ==
    /\ ws_pc[s] = "idle"
    /\ ws_ops[s] < limit
    /\ \E name \in Names, description \in Descriptions, config \in Configs \cup {NoConfig},
          ai \in AiOutcomes, now \in Times :
          /\ ws_local' = [ws_local EXCEPT ![s] =
                 [NoLocals EXCEPT !.record = Some(MakeRecord(name, description, config, ai, now))]]
          /\ ws_calls' = [ws_calls EXCEPT ![s] =
                 IF ai # "absent" /\ config # NoConfig
                 THEN Append(@, <<"llm", "context signature">>) ELSE @]
          /\ ws_hist' = [ws_hist EXCEPT !.args[s] =
                 Some([name |-> name, description |-> description, config |-> config])]
    /\ ws_pc' = [ws_pc EXCEPT ![s] = "save_read"]
    /\ ws_ops' = [ws_ops EXCEPT ![s] = @ + 1]
    /\ UNCHANGED <<ws_file, ws_ret>>

\* with open(WORKSPACE_FILE, 'r') as f: data = json.load(f)
WsSaveRead(s) ==
    /\ ws_pc[s] = "save_read"
    /\ ws_local' = [ws_local EXCEPT ![s].data = ws_file]
    /\ ws_pc' = [ws_pc EXCEPT ![s] = "save_write"]
    /\ ws_hist' = HistRead(ws_hist, s, ws_file)
    /\ UNCHANGED <<ws_file, ws_ret, ws_ops, ws_calls>>

\* data[record["id"]] = record; json.dump(data, f); return True
WsSaveWrite(s) ==
    /\ ws_pc[s] = "save_write"
    /\ ws_file' = SavedData(ws_local[s].data, ws_local[s].record[2])
    /\ ws_ret' = [ws_ret EXCEPT ![s] =
           [op |-> "save", arg |-> ws_local[s].record[2].id, value |-> TRUE]]
    /\ ws_pc' = [ws_pc EXCEPT ![s] = "idle"]
    /\ ws_hist' = [HistWrite(ws_hist, s) EXCEPT !.saved[s] = ws_local[s].record]
    /\ ws_local' = [ws_local EXCEPT ![s] = NoLocals]
    /\ UNCHANGED <<ws_ops, ws_calls>>

\* The ids a caller passes: those of the names, stored or not.
WorkIds == {WorkId(n) : n \in Names}

\* load_work(work_id)
WsLoad(s, limit) ==
    /\ ws_pc[s] = "idle"
    /\ ws_ops[s] < limit
    /\ \E work_id \in WorkIds :
          ws_ret' = [ws_ret EXCEPT ![s] =
              [op |-> "load", arg |-> work_id, value |-> LoadWork(ws_file, work_id)]]
    /\ ws_ops' = [ws_ops EXCEPT ![s] = @ + 1]
    /\ UNCHANGED <<ws_file, ws_pc, ws_local, ws_calls, ws_hist>>

\* delete_work(work_id): read the file; return False when the id is absent.
WsDeleteRead(s, limit) ==
    /\ ws_pc[s] = "idle"
    /\ ws_ops[s] < limit
    /\ ws_ops' = [ws_ops EXCEPT ![s] = @ + 1]
    /\ \E work_id \in WorkIds :
          \/ /\ work_id \in DOMAIN ws_file
             /\ ws_local' = [ws_local EXCEPT ![s] =
                    [NoLocals EXCEPT !.data = ws_file, !.work_id = work_id]]
             /\ ws_pc' = [ws_pc EXCEPT ![s] = "delete_write"]
             /\ UNCHANGED ws_ret
          \/ /\ work_id \notin DOMAIN ws_file
             /\ ws_ret' = [ws_ret EXCEPT ![s] =
                    [op |-> "delete", arg |-> work_id, value |-> FALSE]]
             /\ UNCHANGED <<ws_pc, ws_local>>
    /\ ws_hist' = HistRead(ws_hist, s, ws_file)
    /\ UNCHANGED <<ws_file, ws_calls>>

\* del data[work_id]; json.dump(data, f); return True
WsDeleteWrite(s) ==
    /\ ws_pc[s] = "delete_write"
    /\ ws_file' = StoreDel(ws_local[s].data, ws_local[s].work_id)
    /\ ws_ret' = [ws_ret EXCEPT ![s] =
           [op |-> "delete", arg |-> ws_local[s].work_id, value |-> TRUE]]
    /\ ws_pc' = [ws_pc EXCEPT ![s] = "idle"]
    /\ ws_local' = [ws_local EXCEPT ![s] = NoLocals]
    /\ ws_hist' = HistWrite(ws_hist, s)
    /\ UNCHANGED <<ws_ops, ws_calls>>

(***************************************************************************)
(* StallionPlanner.generate_enterprise_report: Recall, Hypothesis,         *)
(* Reasoning, Layout.                                                      *)
(***************************************************************************)
VARIABLES
    pl_pc,           \* "off", "recall_kpi", "recall_chart", "hypothesis", "reasoning",
                     \* "layout", "returned", "raised"
    pl_config,       \* dashboard_config
    pl_k,            \* the index of the next KPI or chart to audit
    pl_context_log,  \* context_log, as the sequence of its entries
    pl_raw_plan,     \* raw_plan, or None
    pl_lines,        \* lines
    pl_i,            \* the index of the next plan line
    pl_deep_log,     \* deep_dive_log, as the sequence of its entries
    pl_calls,        \* the gateway calls made so far, in order
    pl_result        \* <<"none">>, <<"return", html>> or <<"raise", str(e)>>

plVars == <<pl_pc, pl_config, pl_k, pl_context_log, pl_raw_plan, pl_lines, pl_i,
            pl_deep_log, pl_calls, pl_result>>

\* Dashboard configurations: {} and one with a KPI card and a chart.
PlannerConfigs ==
    { [keys |-> {}, kpi_cards |-> <<>>, charts |-> <<>>],
      [keys |-> {"kpi_cards", "charts"},
       kpi_cards |-> <<[label |-> "Total Revenue", sql_query |-> "SELECT SUM(sales) FROM t"]>>,
       charts |-> <<[title |-> "Sales by Region",
                     sql_query |-> "SELECT region, SUM(sales) FROM t GROUP BY region"]>>] }

\* 'SELECT d, v FROM t | ANOMALY'
LineAnomaly ==
    <<"S", "E", "L", "E", "C", "T", " ", "d", ",", " ", "v", " ", "F", "R", "O", "M", " ", "t", " ", "|", " ", "A", "N", "O", "M", "A", "L", "Y">>

\* '```sql SELECT d, v FROM t;``` | forecast'
LineForecastFenced ==
    <<"^", "^", "^", "s", "q", "l", " ", "S", "E", "L", "E", "C", "T", " ", "d", ",", " ", "v", " ", "F", "R", "O", "M", " ", "t", ";", "^", "^", "^", " ", "|", " ", "f", "o", "r", "e", "c", "a", "s", "t">>

\* 'SELECT * FROM c | [SEGMENTATION]'
LineSegmentation ==
    <<"S", "E", "L", "E", "C", "T", " ", "*", " ", "F", "R", "O", "M", " ", "c", " ", "|", " ", "[", "S", "E", "G", "M", "E", "N", "T", "A", "T", "I", "O", "N", "]">>

\* 'Step 1: look at sales'
LineNoSeparator ==
    <<"S", "t", "e", "p", " ", "1", ":", " ", "l", "o", "o", "k", " ", "a", "t", " ", "s", "a", "l", "e", "s">>

\* The lines a plan is made of in the model's runs.
PlanLines ==
    {LineAnomaly, LineForecastFenced, LineSegmentation, LineNoSeparator}

\* The most lines a plan holds in the model's runs.
MaxPlanLines == 2

\* '<h1>Report</h1>'
HtmlPlain ==
    <<"<", "h", "1", ">", "R", "e", "p", "o", "r", "t", "<", "/", "h", "1", ">">>

\* '```html\n<p>ok</p>\n```'
HtmlFenced ==
    <<"^", "^", "^", "h", "t", "m", "l", "\n", "<", "p", ">", "o", "k", "<", "/", "p", ">", "\n", "^", "^", "^">>

HtmlTexts == {HtmlPlain, HtmlFenced}

\* '```html'
FenceHtml ==
    <<"^", "^", "^", "h", "t", "m", "l">>

\* 'SEGMENTATION'
KwSegmentation ==
    <<"S", "E", "G", "M", "E", "N", "T", "A", "T", "I", "O", "N">>

\* 'ANOMALY'
KwAnomaly ==
    <<"A", "N", "O", "M", "A", "L", "Y">>

\* 'FORECAST'
KwForecast ==
    <<"F", "O", "R", "E", "C", "A", "S", "T">>

\* 'CORRELATION'
KwCorrelation ==
    <<"C", "O", "R", "R", "E", "L", "A", "T", "I", "O", "N">>

\* "\n".join(lines)
RECURSIVE JoinLines(_)
JoinLines(ls) ==
    IF ls = <<>> THEN <<>>
    ELSE IF Len(ls) = 1 THEN ls[1]
    ELSE ls[1] \o <<"\n">> \o JoinLines(Tail(ls))

\* The plans the language model returns: up to MaxPlanLines lines, with the
\* blank lines a model puts around its answer.
PlanTexts ==
    { <<"\n">> \o JoinLines(ls) \o <<"\n">> :
        ls \in UNION {[1..n -> PlanLines] : n \in 0..MaxPlanLines} }

\* str.split(sep) for a one-character sep
RECURSIVE Split(_, _)
Split(s, sep) ==
    LET i == Find(s, sep) IN
    IF i = -1 THEN <<s>>
    ELSE <<Slice(s, 0, i)>> \o Split(Slice(s, i + 1, Len(s)), sep)

\* lines = raw_plan.strip().split("\n")
SplitPlan(raw_plan) == Split(Strip(raw_plan), "\n")

\* "|" in line
HasSeparator(line) == Contains(line, <<"|">>)

\* parts[0].strip().replace("```sql", "").replace("```", "").replace(";", "")
StepSql(line) ==
    RemoveAll(RemoveAll(RemoveAll(Strip(Split(line, "|")[1]), FenceSql), Fence), <<";">>)

\* parts[1].strip().upper()
StepTool(line) == Upper(Strip(Split(line, "|")[2]))

\* df.head(5)
SampleRows == 5

Min(a, b) == IF a < b THEN a ELSE b

\* A faulty routing: the statistical tools run on a table of any width.
RoutedToolWithoutColumnGuard(tool, ncols) ==
    IF Contains(tool, KwSegmentation) THEN "SEGMENTATION"
    ELSE IF Contains(tool, KwAnomaly) THEN "ANOMALY"
    ELSE IF Contains(tool, KwForecast) THEN "FORECAST"
    ELSE IF Contains(tool, KwCorrelation) THEN "CORRELATION"
    ELSE ""

\* Which branch of the tool routing runs for tool name `tool` and a table of
\* ncols columns: the tool's name, or "" when none runs.
RoutedTool(tool, ncols) ==
    IF Contains(tool, KwSegmentation) THEN "SEGMENTATION"
    ELSE IF Contains(tool, KwAnomaly) /\ ncols >= 2 THEN "ANOMALY"
    ELSE IF Contains(tool, KwForecast) /\ ncols >= 2 THEN "FORECAST"
    ELSE IF Contains(tool, KwCorrelation) THEN "CORRELATION"
    ELSE ""

\* tool_insight: the text the routed tool returns.  strategy is what
\* suggest_strategy returned ("none" for None).
ToolInsight(routed, strategy) ==
    IF routed = "SEGMENTATION"
    THEN IF strategy # "none" THEN "SEGMENTATION ANALYSIS: summary_md"
         ELSE "Segmentation failed to determine strategy."
    ELSE IF routed = "ANOMALY" THEN "detect_anomalies(df, df.columns[1])"
    ELSE IF routed = "FORECAST" THEN "generate_forecast(df, df.columns[0], df.columns[1])"
    ELSE IF routed = "CORRELATION" THEN "check_correlations(df)"
    ELSE ""

\* What one pass of the Reasoning loop's try block appends to deep_dive_log, for
\* the step's sql and tool and database outcome o; renders is whether DataFrame.to_markdown succeeds; when
\* it raises, the except clause logs the error.
StepLog(sql, tool, o, renders, strategy) ==
    LET res == RunQuery(o)
        routed == RoutedTool(tool, res.ncols)
        insight == ToolInsight(routed, strategy)
    IN IF DfEmpty(res) THEN <<>>
       ELSE IF ~renders
            THEN << <<"query", sql>>, <<"error", RenderErrorText>> >>
            ELSE << <<"query", sql>>, <<"snapshot", Min(res.nrows, SampleRows), res.ncols>> >>
                 \o (IF insight # "" THEN << <<"tool", tool, insight>> >> ELSE <<>>)

\* The gateway calls of one pass: the step's query, and the strategy prompt of
\* a SEGMENTATION step whose rows could be rendered.
StepCalls(sql, tool, o, renders) ==
    LET res == RunQuery(o) IN
    << <<"sql", "reasoning", sql>> >>
    \o (IF ~DfEmpty(res) /\ renders /\ RoutedTool(tool, res.ncols) = "SEGMENTATION"
        THEN << <<"llm", "strategy">> >> ELSE <<>>)

\* A faulty loop: an exception in a pass ends the run.
AfterStepAborting(raised) == IF raised THEN "raised" ELSE "reasoning"

\* Where the loop stands after a pass, whether or not the pass raised: the
\* except clause logs and the loop goes on.
AfterStep(raised) == "reasoning"

\* raw_html.replace("```html", "").replace("```", "").strip()
CleanHtml(raw_html) == Strip(RemoveAll(RemoveAll(raw_html, FenceHtml), Fence))

\* The section header goes into the log before the section's first entry.
WithHeader(log, header, k) == IF k = 1 THEN Append(log, <<"header", header>>) ELSE log

InitPlanner ==
    /\ pl_pc = "recall_kpi"
    /\ pl_config \in PlannerConfigs
    /\ pl_k = 1
    /\ pl_context_log = <<>>
    /\ pl_raw_plan = None
    /\ pl_lines = <<>>
    /\ pl_i = 1
    /\ pl_deep_log = <<>>
    /\ pl_calls = <<>>
    /\ pl_result = <<"none">>

IdlePlanner ==
    /\ pl_pc = "off"
    /\ pl_config = [keys |-> {}, kpi_cards |-> <<>>, charts |-> <<>>]
    /\ pl_k = 1
    /\ pl_context_log = <<>>
    /\ pl_raw_plan = None
    /\ pl_lines = <<>>
    /\ pl_i = 1
    /\ pl_deep_log = <<>>
    /\ pl_calls = <<>>
    /\ pl_result = <<"none">>

\* Phase 1, one KPI card: its query is run and "- label: value" is logged; an
\* exception is passed over.
PlRecallKpiOn(outcomes) ==
    /\ pl_pc = "recall_kpi"
    /\ \/ /\ "kpi_cards" \in pl_config.keys
          /\ pl_k <= Len(pl_config.kpi_cards)
          /\ \E o \in outcomes :
                LET kpi == pl_config.kpi_cards[pl_k]
                    res == RunQuery(o)
                IN /\ pl_calls' = Append(pl_calls, <<"sql", "recall", kpi.sql_query>>)
                   /\ pl_context_log' = Append(WithHeader(pl_context_log, "[METRICS]", pl_k),
                          <<"kpi", kpi.label, IF DfEmpty(res) THEN "N/A" ELSE "df.iloc[0,0]">>)
          /\ pl_k' = pl_k + 1
          /\ UNCHANGED pl_pc
       \/ /\ "kpi_cards" \in pl_config.keys
          /\ pl_k > Len(pl_config.kpi_cards)
          /\ pl_context_log' = WithHeader(pl_context_log, "[METRICS]", pl_k)
          /\ pl_k' = 1
          /\ pl_pc' = "recall_chart"
          /\ UNCHANGED pl_calls
       \/ /\ "kpi_cards" \notin pl_config.keys
          /\ pl_pc' = "recall_chart"
          /\ UNCHANGED <<pl_k, pl_calls, pl_context_log>>
    /\ UNCHANGED <<pl_config, pl_raw_plan, pl_lines, pl_i, pl_deep_log, pl_result>>

PlRecallKpi == PlRecallKpiOn(DbOutcomes)

\* Phase 1, one chart: its query is run and, when rows came back, their
\* statistics and sample are logged; an exception is passed over.
PlRecallChartOn(outcomes, renderings) ==
    /\ pl_pc = "recall_chart"
    /\ \/ /\ "charts" \in pl_config.keys
          /\ pl_k <= Len(pl_config.charts)
          /\ \E o \in outcomes, renders \in renderings :
                LET chart == pl_config.charts[pl_k]
                    res == RunQuery(o)
                    log == WithHeader(pl_context_log, "[TRENDS]", pl_k)
                IN /\ pl_calls' = Append(pl_calls, <<"sql", "recall", chart.sql_query>>)
                   /\ pl_context_log' =
                          IF ~DfEmpty(res) /\ renders
                          THEN Append(log, <<"chart", chart.title, Min(res.nrows, SampleRows)>>)
                          ELSE log
          /\ pl_k' = pl_k + 1
          /\ UNCHANGED pl_pc
       \/ /\ "charts" \in pl_config.keys
          /\ pl_k > Len(pl_config.charts)
          /\ pl_context_log' = WithHeader(pl_context_log, "[TRENDS]", pl_k)
          /\ pl_k' = 1
          /\ pl_pc' = "hypothesis"
          /\ UNCHANGED pl_calls
       \/ /\ "charts" \notin pl_config.keys
          /\ pl_pc' = "hypothesis"
          /\ UNCHANGED <<pl_k, pl_calls, pl_context_log>>
    /\ UNCHANGED <<pl_config, pl_raw_plan, pl_lines, pl_i, pl_deep_log, pl_result>>

PlRecallChart == PlRecallChartOn(DbOutcomes, BOOLEAN)

\* Phase 2: raw_plan = self.ai._call_ai(plan_prompt), outside any try block;
\* texts are the plans the language model may return.
PlHypothesisFrom(texts) ==
    /\ pl_pc = "hypothesis"
    /\ pl_calls' = Append(pl_calls, <<"llm", "plan">>)
    /\ \/ /\ pl_pc' = "raised"
          /\ pl_result' = <<"raise", LlmErrorText>>
          /\ UNCHANGED <<pl_raw_plan, pl_lines>>
       \/ /\ \E raw \in texts :
                /\ pl_raw_plan' = raw
                /\ pl_lines' = SplitPlan(raw)
          /\ pl_pc' = "reasoning"
          /\ UNCHANGED pl_result
    /\ UNCHANGED <<pl_config, pl_k, pl_context_log, pl_i, pl_deep_log>>

PlHypothesis == PlHypothesisFrom(PlanTexts)

\* A faulty loop: a line without a separator ends it.
NextLineStoppingAtPlainLine(i, lines) ==
    IF HasSeparator(lines[i]) THEN i + 1 ELSE Len(lines) + 1

\* for line in lines: the line after line i.
NextLine(i, lines) == i + 1

\* Phase 3, one line of the plan.
PlStep ==
    /\ pl_pc = "reasoning"
    /\ \/ /\ pl_i <= Len(pl_lines)
          /\ HasSeparator(pl_lines[pl_i])
          /\ LET sql == StepSql(pl_lines[pl_i])
                 tool == StepTool(pl_lines[pl_i])
             IN \E o \in DbOutcomes, renders \in BOOLEAN, strategy \in {"none", "RFM"} :
                   /\ pl_calls' = pl_calls \o StepCalls(sql, tool, o, renders)
                   /\ pl_deep_log' = pl_deep_log \o StepLog(sql, tool, o, renders, strategy)
                   /\ pl_pc' = AfterStep(~DfEmpty(RunQuery(o)) /\ ~renders)
          /\ pl_i' = NextLine(pl_i, pl_lines)
       \/ /\ pl_i <= Len(pl_lines)
          /\ ~HasSeparator(pl_lines[pl_i])
          /\ pl_i' = NextLine(pl_i, pl_lines)
          /\ UNCHANGED <<pl_calls, pl_deep_log, pl_pc>>
       \/ /\ pl_i > Len(pl_lines)
          /\ pl_pc' = "layout"
          /\ UNCHANGED <<pl_calls, pl_deep_log, pl_i>>
    /\ UNCHANGED <<pl_config, pl_k, pl_context_log, pl_raw_plan, pl_lines, pl_result>>

\* A faulty Layout: the audited cards and charts are cleared from the
\* configuration once the report is asked for.
PlLayoutClearingConfig ==
    /\ pl_pc = "layout"
    /\ pl_calls' = Append(pl_calls, <<"llm", "report">>)
    /\ \/ /\ pl_pc' = "raised"
          /\ pl_result' = <<"raise", LlmErrorText>>
       \/ /\ \E raw_html \in HtmlTexts : pl_result' = <<"return", CleanHtml(raw_html)>>
          /\ pl_pc' = "returned"
    /\ pl_config' = [pl_config EXCEPT !.kpi_cards = <<>>, !.charts = <<>>]
    /\ UNCHANGED <<pl_k, pl_context_log, pl_raw_plan, pl_lines, pl_i, pl_deep_log>>

\* Phase 4: raw_html = self.ai._call_ai(report_prompt), outside any try block.
PlLayout ==
    /\ pl_pc = "layout"
    /\ pl_calls' = Append(pl_calls, <<"llm", "report">>)
    /\ \/ /\ pl_pc' = "raised"
          /\ pl_result' = <<"raise", LlmErrorText>>
       \/ /\ \E raw_html \in HtmlTexts : pl_result' = <<"return", CleanHtml(raw_html)>>
          /\ pl_pc' = "returned"
    /\ UNCHANGED <<pl_config, pl_k, pl_context_log, pl_raw_plan, pl_lines, pl_i, pl_deep_log>>

(***************************************************************************)
(* StallionForecaster.generate_forecast, as the chart's Forecast control   *)
(* calls it.                                                               *)
(***************************************************************************)
VARIABLES
    fc_pc,        \* "off", "prepare", "fit", "growth", "returned"
    fc_periods,   \* periods
    fc_growth,    \* the Growth % slider's value; growth_factor is fc_growth / 100.0
    fc_data,      \* <<len(data), len(ts_data)>>
    fc_cadence,   \* [freq, cycle], or NoCadence before they are chosen
    fc_base,      \* forecast_values before the growth scenario
    fc_model,     \* model_name, as [model, cycle, scenario]
    fc_modifiers, \* modifiers, or <<>> when no scenario is applied
    fc_result     \* <<"none">>, <<"error", text>> or <<"table", rows, model_name, types>>

fcVars == <<fc_pc, fc_periods, fc_growth, fc_data, fc_cadence, fc_base, fc_model, fc_modifiers,
            fc_result>>

\* The longest horizon of the model's runs; the Horizon slider goes from 1 to 24.
MaxPeriods == 4

\* The Horizon slider's least value.
MinPeriods == 1

\* Growth % slider values of the model's runs; the slider goes from -50 to 50.
\* For each of them int(growth_factor * 100) is the slider's value again.
GrowthPcts == {-50, -10, 0, 10, 50}

\* <<len(data), len(ts_data)>>: the rows with a valid date, and the points of
\* the grouped and regularised series.  Rows that all fall inside one month
\* before its last day regularise to no point at all (asfreq('M') spans no
\* month end): <<2, 0>>; three rows in two neighbouring months to one point.
Histories == { <<0, 0>>, <<2, 0>>, <<3, 1>>, <<2, 2>>, <<30, 24>>, <<61, 13>>, <<61, 70>> }

\* Values the fitted model forecasts.
BaseValues == {100, 250}

\* Rationals as <<numerator, denominator>> with a positive denominator.
RatEq(a, b) == a[1] * b[2] = b[1] * a[2]

RatMul(a, b) == <<a[1] * b[1], a[2] * b[2]>>

\* np.linspace(1, 1 + pct/100, num): num evenly spaced samples, the first 1 and,
\* when num > 1, the last 1 + pct/100; i is the sample's index from 0.
LinspaceAt(pct, num, i) ==
    IF num = 1 THEN <<1, 1>>
    ELSE <<100 * (num - 1) + i * pct, 100 * (num - 1)>>

Linspace(pct, num) == [k \in 1..num |-> LinspaceAt(pct, num, k - 1)]

\* future_X = np.arange(len(ts_data), len(ts_data) + periods)
FutureX(n, periods) == [k \in 1..periods |-> n + k - 1]

\* A faulty index: the last date of the history is kept as the first future date.
FutureDatesFromLastDate(periods) == [k \in 1..(periods + 1) |-> k - 1]

\* future_dates = pd.date_range(start=last_date, periods=periods+1, freq=freq)[1:],
\* as the number of steps after last_date
FutureDates(periods) == Tail([k \in 1..(periods + 1) |-> k - 1])

\* A faulty scenario: the flat multiplier 1 + growth_factor on every step.
ModifiersFlat(pct, periods) == [k \in 1..periods |-> <<100 + pct, 100>>]

\* modifiers = np.linspace(1, 1 + growth_factor, periods)
Modifiers(pct, periods) == Linspace(pct, periods)

\* forecast_values * modifiers
ApplyModifiers(values, modifiers) ==
    [k \in 1..Len(values) |-> RatMul(<<values[k], 1>>, modifiers[k])]

\* cycle: 7 for more than 60 rows, else 12
Cycle(n) == IF n > 60 THEN 7 ELSE 12

\* freq
Freq(n) == IF n > 60 THEN "D" ELSE "M"

\* A faulty test: one cycle of history is taken for enough.
UseSeasonalityOneCycle(data) == data[2] >= Cycle(data[1])

\* use_seasonality = len(ts_data) >= (cycle * 2)
UseSeasonality(data) == data[2] >= Cycle(data[1]) * 2

NoCadence == [freq |-> "", cycle |-> 0]

\* str(e) of the ValueError LinearRegression().fit raises for a series of no
\* point (pd.Series raises one too for values and an index of different lengths)
FitErrorText ==
    "Found array with 0 sample(s) (shape=(0, 1)) while a minimum of 1 is required by LinearRegression."

\* The "Type" column of forecast_df
TypeColumn(values) == [k \in 1..Len(values) |-> "Forecast"]

NoModel == [model |-> "", cycle |-> 0, scenario |-> None]

InitForecast ==
    /\ fc_pc = "prepare"
    /\ fc_periods \in MinPeriods..MaxPeriods
    /\ fc_growth \in GrowthPcts
    /\ fc_data \in Histories
    /\ fc_cadence = NoCadence
    /\ fc_base = <<>>
    /\ fc_model = NoModel
    /\ fc_modifiers = <<>>
    /\ fc_result = <<"none">>

IdleForecast ==
    /\ fc_pc = "off"
    /\ fc_periods = MinPeriods
    /\ fc_growth = 0
    /\ fc_data = <<0, 0>>
    /\ fc_cadence = NoCadence
    /\ fc_base = <<>>
    /\ fc_model = NoModel
    /\ fc_modifiers = <<>>
    /\ fc_result = <<"none">>

\* 1. Data preparation: no row with a valid date returns (None, "Invalid Date Column").
FcPrepare ==
    /\ fc_pc = "prepare"
    /\ \/ /\ fc_data[1] = 0
          /\ fc_pc' = "returned"
          /\ fc_result' = <<"error", "Invalid Date Column">>
       \/ /\ fc_data[1] > 0
          /\ fc_pc' = "fit"
          /\ UNCHANGED fc_result
    /\ UNCHANGED <<fc_periods, fc_growth, fc_data, fc_cadence, fc_base, fc_model, fc_modifiers>>

\* The linear trend of lines 81-96: the regression over the series' points and
\* the forecast series over the future dates.  A series of no point, or values
\* and dates of different lengths, raise into the outer except clause, which
\* returns (None, str(e)).
FcLinearTrend ==
    LET future_X == FutureX(fc_data[2], fc_periods)
        future_dates == FutureDates(fc_periods)
    IN IF fc_data[2] = 0 \/ Len(future_X) # Len(future_dates)
       THEN /\ fc_pc' = "returned"
            /\ fc_result' = <<"error", FitErrorText>>
            /\ UNCHANGED <<fc_base, fc_model>>
       ELSE /\ \E pred \in [1..Len(future_X) -> BaseValues] : fc_base' = pred
            /\ fc_model' = [model |-> "Linear Trend", cycle |-> 0, scenario |-> None]
            /\ fc_pc' = "growth"
            /\ UNCHANGED fc_result

\* 2. Model selection: freq and cycle by the number of rows; Holt-Winters when
\* the series holds two cycles and the fit succeeds, else the linear trend.
FcFit ==
    /\ fc_pc = "fit"
    /\ fc_cadence' = [freq |-> Freq(fc_data[1]), cycle |-> Cycle(fc_data[1])]
    /\ \/ /\ UseSeasonality(fc_data)
          /\ \E values \in [1..fc_periods -> BaseValues] : fc_base' = values
          /\ fc_model' = [model |-> "Holt-Winters", cycle |-> Cycle(fc_data[1]),
                          scenario |-> None]
          /\ fc_pc' = "growth"
          /\ UNCHANGED fc_result
       \/ /\ UseSeasonality(fc_data)
          /\ FcLinearTrend
       \/ /\ ~UseSeasonality(fc_data)
          /\ FcLinearTrend
    /\ UNCHANGED <<fc_periods, fc_growth, fc_data, fc_modifiers>>

\* 3. and 4. The growth scenario and the output table.
FcGrowth ==
    /\ fc_pc = "growth"
    /\ \/ /\ fc_growth # 0
          /\ fc_modifiers' = Modifiers(fc_growth, fc_periods)
          /\ fc_model' = [fc_model EXCEPT !.scenario = Some(fc_growth)]
          /\ fc_result' = <<"table", ApplyModifiers(fc_base, Modifiers(fc_growth, fc_periods)),
                            fc_model', TypeColumn(fc_base)>>
       \/ /\ fc_growth = 0
          /\ fc_result' = <<"table", [k \in 1..Len(fc_base) |-> <<fc_base[k], 1>>], fc_model,
                            TypeColumn(fc_base)>>
          /\ UNCHANGED <<fc_modifiers, fc_model>>
    /\ fc_pc' = "returned"
    /\ UNCHANGED <<fc_periods, fc_growth, fc_data, fc_cadence, fc_base>>

(***************************************************************************)
(* StallionAnalyticsEngine.generate_forecast, the Planner's FORECAST tool. *)
(***************************************************************************)
VARIABLES
    ef_pc,      \* "off", "guard", "prep", "fit", "returned"
    ef_df,      \* df, as [has_date_col, rows]; a row is [date, value]
    ef_data,    \* data: the rows left after dropna, their dates as month numbers
    ef_ts,      \* ts: month number -> the month's sum
    ef_result   \* the returned text, or <<"none">>

efVars == <<ef_pc, ef_df, ef_data, ef_ts, ef_result>>

\* The most rows of a table in the model's runs.
MaxRows == 13

\* len(data) < 12
MinSeasonalRows == 12

\* periods=6
DefaultPeriods == 6

\* pd.NaT
NaT == 0

\* pd.to_datetime(cell, errors='coerce'): the date's month (counted from the
\* first month of the table's calendar), NaT for a cell that holds no date.
ToDatetime(cell) == IF cell[1] = "date" THEN cell[2] ELSE NaT

\* The date cells of a table of n rows.  Every shape is in ascending order of
\* date, so sort_values leaves the rows where they are.
DateCell(shape, i) ==
    CASE shape = "one month" -> <<"date", 1>>
      [] shape = "month after month" -> <<"date", i>>
      [] shape = "every other month" -> <<"date", 2 * i - 1>>
      [] shape = "two undated rows" -> IF i <= 2 THEN <<"text", "n/a">> ELSE <<"date", i - 2>>

Shapes == {"one month", "month after month", "every other month", "two undated rows"}

TableRows(shape, n) == [i \in 1..n |-> [date |-> DateCell(shape, i), value |-> 10 * i]]

\* The tables generate_forecast is called on.
ForecastInputs ==
    { [has_date_col |-> h, rows |-> TableRows(shape, n)] :
          h \in BOOLEAN, shape \in Shapes, n \in 0..MaxRows }

HasDate(row) == row.date # NaT

\* data[date_col] = pd.to_datetime(...); data.dropna(subset=[date_col])
DropUndated(rows) ==
    SelectSeq([i \in 1..Len(rows) |-> [rows[i] EXCEPT !.date = ToDatetime(rows[i].date)]],
              HasDate)

RECURSIVE SumIn(_, _, _)
\* The sum of the values of rows[1..n] dated in month m.
SumIn(rows, n, m) ==
    IF n = 0 THEN 0
    ELSE SumIn(rows, n - 1, m) + (IF rows[n].date = m THEN rows[n].value ELSE 0)

\* data.set_index(date_col)[value_col].resample('ME').sum().fillna(0): one point
\* for every month from the first row's to the last row's, the months without
\* rows included.  data is sorted by date and has a row.
Resample(data) ==
    [m \in data[1].date .. data[Len(data)].date |-> SumIn(data, Len(data), m)]

\* len(ts)
MonthlyPoints(data) ==
    IF data = <<>> THEN 0 ELSE data[Len(data)].date - data[1].date + 1

NoDataForForecasting == "No data for forecasting."
DataTooShort == "Data too short for seasonal forecasting (need 12+ points)."
ForecastingFailed == "Forecasting Failed: str(e)"

\* forecast.iloc[-1] of the fitted model.
EndValues == {-5, 0, 50, 500}

\* growth = ((end_val - start_val) / start_val) * 100 in floating point, where
\* x / 0 is inf, -inf or nan and raises nothing; direction is "Growth" if
\* growth > 0.
Direction(start_val, end_val) ==
    IF \/ start_val > 0 /\ end_val > start_val
       \/ start_val < 0 /\ end_val < start_val
       \/ start_val = 0 /\ end_val > 0
    THEN "Growth" ELSE "Decline"

InitEngineForecast ==
    /\ ef_pc = "guard"
    /\ ef_df \in ForecastInputs
    /\ ef_data = <<>>
    /\ ef_ts = <<>>
    /\ ef_result = <<"none">>

IdleEngineForecast ==
    /\ ef_pc = "off"
    /\ ef_df = [has_date_col |-> FALSE, rows |-> <<>>]
    /\ ef_data = <<>>
    /\ ef_ts = <<>>
    /\ ef_result = <<"none">>

\* if df.empty or date_col not in df.columns: return "No data for forecasting."
EfGuard ==
    /\ ef_pc = "guard"
    /\ \/ /\ ef_df.rows = <<>> \/ ~ef_df.has_date_col
          /\ ef_pc' = "returned"
          /\ ef_result' = <<"text", NoDataForForecasting>>
       \/ /\ ef_df.rows # <<>> /\ ef_df.has_date_col
          /\ ef_pc' = "prep"
          /\ UNCHANGED ef_result
    /\ UNCHANGED <<ef_df, ef_data, ef_ts>>

\* Prep: the dated rows; fewer than 12 of them return the too-short text,
\* otherwise the rows are resampled to months.
EfPrep ==
    /\ ef_pc = "prep"
    /\ ef_data' = DropUndated(ef_df.rows)
    /\ \/ /\ Len(ef_data') < MinSeasonalRows
          /\ ef_pc' = "returned"
          /\ ef_result' = <<"text", DataTooShort>>
          /\ UNCHANGED ef_ts
       \/ /\ Len(ef_data') >= MinSeasonalRows
          /\ ef_ts' = Resample(ef_data')
          /\ ef_pc' = "fit"
          /\ UNCHANGED ef_result
    /\ UNCHANGED ef_df

\* ExponentialSmoothing(ts, ..., seasonal_periods=12).fit() and the forecast:
\* the library raises, which the except clause turns into a text, or it
\* forecasts.
EfFit ==
    /\ ef_pc = "fit"
    /\ \/ ef_result' = <<"text", ForecastingFailed>>
       \/ \E end_val \in EndValues :
             LET start_val == ef_ts[ef_data[Len(ef_data)].date]
             IN ef_result' = <<"forecast", DefaultPeriods,
                               Direction(start_val, end_val), end_val>>
    /\ ef_pc' = "returned"
    /\ UNCHANGED <<ef_df, ef_data, ef_ts>>

(***************************************************************************)
(* StallionAnalyticsEngine.check_correlations, the Planner's CORRELATION   *)
(* tool.  Correlation scores are counted in ten-thousandths.               *)
(***************************************************************************)
VARIABLES
    cc_pc,        \* "off", "select", "scan", "report", "returned"
    cc_dtypes,    \* df's columns, each "number" or "object"
    cc_corr,      \* corr_matrix below its diagonal: <<i, j>> -> score, j < i
    cc_numeric,   \* numeric_df's columns, as their positions in df
    cc_insights,  \* insights
    cc_result     \* the returned text, or <<"none">>

ccVars == <<cc_pc, cc_dtypes, cc_corr, cc_numeric, cc_insights, cc_result>>

\* The most columns of a table in the model's runs.
MaxColumns == 4

\* abs(score) > 0.75
StrongThreshold == 7500

\* insights[:5]
MaxInsights == 5

\* The cells of an n x n matrix below its diagonal.
Below(n) == { p \in (1..n) \X (1..n) : p[2] < p[1] }

\* numeric_df.corr() of columns that each follow one common factor: a column's
\* loading is its correlation with the factor, in hundredths, and two columns
\* correlate by the product of their loadings.  Every matrix so made is the
\* correlation matrix of some table.
Loadings == {-100, 75, 90, 100}

CorrOf(loading) == [p \in Below(Len(loading)) |-> loading[p[1]] * loading[p[2]]]

Abs(x) == IF x < 0 THEN 0 - x ELSE x

IsNumber(dtype) == dtype = "number"

\* df.select_dtypes(include=[np.number]): the positions of the numeric columns.
SelectNumeric(dtypes) ==
    LET positions == [k \in 1..Len(dtypes) |-> k]
        numeric(k) == IsNumber(dtypes[k])
    IN SelectSeq(positions, numeric)

Count(dtypes) == Len(SelectNumeric(dtypes))

RECURSIVE ScanOrder(_)
\* for i in range(n): for j in range(i): the cells in the order the loops
\* visit them.
ScanOrder(n) ==
    IF n = 0 THEN <<>>
    ELSE ScanOrder(n - 1) \o [j \in 1..(n - 1) |-> <<n, j>>]

\* if abs(score) > 0.75
IsStrong(score) == Abs(score) > StrongThreshold

\* "Positive" if score > 0 else "Negative"
Strength(score) == IF score > 0 THEN "Positive" ELSE "Negative"

\* The insights list after the loops: one entry for every strong cell, in the
\* loops' order.
Insights(numeric, corr) ==
    LET cells == ScanOrder(Len(numeric))
        strong(p) == IsStrong(corr[p])
        found == SelectSeq(cells, strong)
    IN [k \in 1..Len(found) |->
           [strength |-> Strength(corr[found[k]]), score |-> corr[found[k]],
            col1 |-> numeric[found[k][1]], col2 |-> numeric[found[k][2]]]]

\* insights[:5]
Reported(insights) == SubSeq(insights, 1, Min(Len(insights), MaxInsights))

NotEnoughNumeric == "Not enough numeric columns for correlation."
NoStrongCorrelations == "No strong correlations (>0.75) detected."

\* The tables check_correlations is called on.
ColumnDtypes ==
    UNION { [1..n -> {"number", "object"}] : n \in 0..MaxColumns }

InitCorrelations ==
    /\ cc_pc = "select"
    /\ cc_dtypes \in ColumnDtypes
    /\ cc_corr \in { CorrOf(loading) : loading \in [1..Count(cc_dtypes) -> Loadings] }
    /\ cc_numeric = <<>>
    /\ cc_insights = <<>>
    /\ cc_result = <<"none">>

IdleCorrelations ==
    /\ cc_pc = "off"
    /\ cc_dtypes = <<>>
    /\ cc_corr = <<>>
    /\ cc_numeric = <<>>
    /\ cc_insights = <<>>
    /\ cc_result = <<"none">>

\* numeric_df = df.select_dtypes(...); fewer than 2 columns return at once.
CcSelect ==
    /\ cc_pc = "select"
    /\ cc_numeric' = SelectNumeric(cc_dtypes)
    /\ \/ /\ Len(cc_numeric') < 2
          /\ cc_pc' = "returned"
          /\ cc_result' = <<"text", NotEnoughNumeric>>
       \/ /\ Len(cc_numeric') >= 2
          /\ cc_pc' = "scan"
          /\ UNCHANGED cc_result
    /\ UNCHANGED <<cc_dtypes, cc_corr, cc_insights>>

\* Find strong pairs: the two loops over corr_matrix.
CcScan ==
    /\ cc_pc = "scan"
    /\ cc_insights' = Insights(cc_numeric, cc_corr)
    /\ cc_pc' = "report"
    /\ UNCHANGED <<cc_dtypes, cc_corr, cc_numeric, cc_result>>

\* The fixed text when insights is empty, else the first five insights.
CcReport ==
    /\ cc_pc = "report"
    /\ \/ /\ cc_insights = <<>>
          /\ cc_result' = <<"text", NoStrongCorrelations>>
       \/ /\ cc_insights # <<>>
          /\ cc_result' = <<"correlations", Reported(cc_insights)>>
    /\ cc_pc' = "returned"
    /\ UNCHANGED <<cc_dtypes, cc_corr, cc_numeric, cc_insights>>

(***************************************************************************)
(* StallionSegmentor.execute_segmentation.  A table is a sequence of rows, *)
(* a row a function from column names to cells, a cell <<"int", n>>,       *)
(* <<"date", day>>, <<"text", s>> or <<"nan">>.                            *)
(***************************************************************************)
VARIABLES
    sg_pc,        \* "off", "start", "features", "core", "cluster", "returned"
    sg_df,        \* df
    sg_strategy,  \* strategy_config, a function from its keys to their values
    sg_features,  \* features: a sequence of [key, values]
    sg_calls,     \* the calls of KMeans.fit_predict, each with its row count
    sg_result     \* <<"none">>, <<"failed", text>> or <<"segments", features, summary>>

sgVars == <<sg_pc, sg_df, sg_strategy, sg_features, sg_calls, sg_result>>

\* n_clusters=4
DefaultClusters == 4

NaN == <<"nan">>

Num(n) == <<"int", n>>

\* One row of a table of orders.
Order(id, date, amount, visits) ==
    [customer_id |-> Num(id), order_date |-> date, amount |-> amount,
     visits |-> visits, plan |-> <<"text", "basic">>]

Day(d) == <<"date", d>>

NoValue == <<"text", "n/a">>

\* Five customers, one order each.
TableFive ==
    [i \in 1..5 |-> Order(i, Day(10 * i), Num(100 * i), Num(i))]

\* Four customers, the first with two orders.
TableRepeat ==
    <<Order(1, Day(3), Num(40), Num(1))>> \o [i \in 1..4 |-> Order(i, Day(10 * i), Num(100 * i), Num(i + 1))]

\* Three customers.
TableThree ==
    [i \in 1..3 |-> Order(i, Day(10 * i), Num(100 * i), Num(i))]

\* Five customers; one order has no date, and one customer no visit count.
TableGaps ==
    <<Order(1, Day(10), Num(100), Num(1)), Order(2, NoValue, Num(200), Num(2)),
      Order(3, Day(30), Num(300), NaN), Order(4, Day(40), Num(400), Num(4)),
      Order(5, Day(50), Num(500), Num(5))>>

\* Five customers; one order has no amount and one is a refund.
TableRefund ==
    <<Order(1, Day(10), Num(100), Num(1)), Order(2, Day(20), NoValue, Num(2)),
      Order(3, Day(30), Num(0 - 300), Num(3)), Order(4, Day(40), Num(400), Num(4)),
      Order(5, Day(50), Num(500), Num(5))>>

\* Four customers, no order with a date.
TableUndated ==
    [i \in 1..4 |-> Order(i, NoValue, Num(100 * i), Num(i))]

\* The tables execute_segmentation is called on.
SegTables == {<<>>, TableFive, TableRepeat, TableThree, TableGaps, TableRefund, TableUndated}

StrategyRfm ==
    [strategy_type |-> "RFM", id_col |-> "customer_id", date_col |-> "order_date",
     amount_col |-> "amount"]

StrategyRfmNoDate ==
    [strategy_type |-> "RFM", id_col |-> "customer_id", amount_col |-> "amount"]

StrategyRfmEmptyId ==
    [strategy_type |-> "RFM", id_col |-> "", date_col |-> "order_date", amount_col |-> "amount"]

StrategyRfmUnknownColumn ==
    [strategy_type |-> "RFM", id_col |-> "customer_id", date_col |-> "purchased_at",
     amount_col |-> "amount"]

StrategyGeneric ==
    [strategy_type |-> "Generic", id_col |-> "customer_id", feature_cols |-> <<"visits", "clicks">>]

StrategyGenericNoId ==
    [strategy_type |-> "Generic", feature_cols |-> <<"visits">>]

StrategyGenericText ==
    [strategy_type |-> "Generic", id_col |-> "customer_id", feature_cols |-> <<"plan">>]

StrategyGenericNoColumns ==
    [strategy_type |-> "Generic", id_col |-> "customer_id"]

StrategyGenericEmptyColumns ==
    [strategy_type |-> "Generic", id_col |-> "customer_id", feature_cols |-> <<>>]

StrategyGenericUnknownColumns ==
    [strategy_type |-> "Generic", id_col |-> "customer_id", feature_cols |-> <<"clicks">>]

\* A mapping without strategy_type takes the generic path.
StrategyUntyped ==
    [id_col |-> "customer_id", feature_cols |-> <<"visits">>]

\* The strategy mappings execute_segmentation is called with.
Strategies ==
    {StrategyRfm, StrategyRfmNoDate, StrategyRfmEmptyId, StrategyRfmUnknownColumn,
     StrategyGeneric, StrategyGenericNoId, StrategyGenericText, StrategyGenericNoColumns,
     StrategyGenericEmptyColumns, StrategyGenericUnknownColumns, StrategyUntyped}

NoDataToSegment == "No data to segment."
RfmMissingColumns == "RFM Strategy missing required columns in config."
GenericMissingColumns == "Generic Strategy missing feature columns."
FeatureColumnsNotFound == "Feature columns not found in data."
NotEnoughDataPoints == "Not enough data points (len(features)) for n_clusters clusters."
SegmentationExecutionError == "Segmentation Execution Error: str(e)"

\* strategy_config.get(key) counts as true: the key is there and its value, a
\* column name, is not "".
Given(config, key) == key \in DOMAIN config /\ config[key] # ""

\* The same of a key whose value is a list of column names.
GivenList(config, key) == key \in DOMAIN config /\ config[key] # <<>>

\* strategy_config.get("strategy_type") == "RFM"
IsRfm(config) == "strategy_type" \in DOMAIN config /\ config["strategy_type"] = "RFM"

\* df.columns
ColumnsOf(df) == IF df = <<>> THEN {} ELSE DOMAIN df[1]

IsNa(cell) == cell[1] = "nan"

\* pd.to_numeric(cell, errors='coerce')
ToNumeric(cell) == IF cell[1] = "int" THEN cell ELSE NaN

\* The RFM strategy's required fields are all given.
RfmFieldsGiven(config) ==
    Given(config, "id_col") /\ Given(config, "date_col") /\ Given(config, "amount_col")

\* cols = strategy_config.get("feature_cols", []) is not empty.
FeatureColsGiven(config) == GivenList(config, "feature_cols")

\* valid_cols = [c for c in cols if c in df.columns]
ValidCols(df, config) ==
    LET in_df(c) == c \in ColumnsOf(df)
    IN SelectSeq(config["feature_cols"], in_df)

RECURSIVE Ascending(_)
\* The numbers of a set in ascending order, as groupby orders its groups.
Ascending(S) ==
    IF S = {} THEN <<>>
    ELSE LET least == CHOOSE x \in S : \A y \in S : x <= y
         IN <<least>> \o Ascending(S \ {least})

RECURSIVE SumOf(_, _)
SumOf(rows, field) ==
    IF rows = <<>> THEN 0 ELSE rows[1][field] + SumOf(Tail(rows), field)

RECURSIVE MaxOf(_, _)
MaxOf(rows, field) ==
    IF Len(rows) = 1 THEN rows[1][field]
    ELSE LET rest == MaxOf(Tail(rows), field)
         IN IF rows[1][field] > rest THEN rows[1][field] ELSE rest

\* Pre-processing of the RFM path: the rows with an id, a date and a numeric
\* amount, as [id, date, amount].
RfmData(df, config) ==
    LET coerced == [i \in 1..Len(df) |->
                       [id |-> df[i][config["id_col"]],
                        date |-> ToDatetime(df[i][config["date_col"]]),
                        amount |-> ToNumeric(df[i][config["amount_col"]])]]
        complete(r) == ~IsNa(r.id) /\ r.date # NaT /\ ~IsNa(r.amount)
        kept == SelectSeq(coerced, complete)
    IN [i \in 1..Len(kept) |->
           [id |-> kept[i].id[2], date |-> kept[i].date, amount |-> kept[i].amount[2]]]

\* Aggregation of the RFM path and the outlier filter: one row for every id,
\* with Recency, Frequency and Monetary; the rows with Monetary > 0 and
\* Recency >= 0 stay.
RfmFeatures(data) ==
    LET snapshot == MaxOf(data, "date") + 1
        ids == Ascending({ data[i].id : i \in 1..Len(data) })
        of(id) == LET mine(r) == r.id = id IN SelectSeq(data, mine)
        all == [k \in 1..Len(ids) |->
                   [key |-> ids[k],
                    values |-> [Recency |-> Num(snapshot - MaxOf(of(ids[k]), "date")),
                                Frequency |-> Num(Len(of(ids[k]))),
                                Monetary |-> Num(SumOf(of(ids[k]), "amount"))]]]
        sound(f) == f.values["Monetary"][2] > 0 /\ f.values["Recency"][2] >= 0
    IN SelectSeq(all, sound)

\* The generic path groups by id: id_col is given, is a column, and some id
\* comes twice.
GroupsById(df, config) ==
    /\ Given(config, "id_col")
    /\ config["id_col"] \in ColumnsOf(df)
    /\ Cardinality({ df[i][config["id_col"]] : i \in 1..Len(df) }) < Len(df)

\* A column that holds text has dtype object.
IsNumericColumn(rows, c) == \A i \in 1..Len(rows) : rows[i][c][1] \in {"int", "nan"}

\* The mean of the cells that are numbers: <<"mean", sum, count>>, NaN of none.
MeanOf(cells) ==
    LET number(c) == c[1] = "int"
        numbers == SelectSeq(cells, number)
        as_rows == [i \in 1..Len(numbers) |-> [v |-> numbers[i][2]]]
    IN IF numbers = <<>> THEN NaN ELSE <<"mean", SumOf(as_rows, "v"), Len(numbers)>>

\* features of the generic path before dropna: df.groupby(id_col)[valid_cols]
\* .mean(), df.set_index(id_col)[valid_cols] or df[valid_cols].
GenericFeatures(df, config) ==
    LET cols == ValidCols(df, config)
        colset == { cols[k] : k \in 1..Len(cols) }
    IN IF GroupsById(df, config)
       THEN LET id_col == config["id_col"]
                ids == Ascending({ df[i][id_col][2] : i \in 1..Len(df) })
                of(id) == LET mine(r) == r[id_col][2] = id IN SelectSeq(df, mine)
            IN [k \in 1..Len(ids) |->
                   [key |-> ids[k],
                    values |-> [c \in colset |->
                                   MeanOf([i \in 1..Len(of(ids[k])) |-> of(ids[k])[i][c]])]]]
       ELSE [i \in 1..Len(df) |->
                [key |-> IF Given(config, "id_col") /\ config["id_col"] \in ColumnsOf(df)
                         THEN df[i][config["id_col"]][2] ELSE i - 1,
                 values |-> [c \in colset |-> df[i][c]]]]

\* features.dropna()
DropNa(features) ==
    LET whole(f) == \A c \in DOMAIN f.values : ~IsNa(f.values[c])
    IN SelectSeq(features, whole)

\* features.select_dtypes(include=np.number) has a column.
HasNumericColumn(features) ==
    \E c \in DOMAIN features[1].values :
        \A i \in 1..Len(features) : features[i].values[c][1] \in {"int", "mean"}

\* A faulty guard: any number of rows goes on to the clustering.
EnoughRowsAlways(features, n_clusters) == TRUE

\* not (len(features) < n_clusters)
EnoughRows(features, n_clusters) == ~(Len(features) < n_clusters)

\* features['Cluster'] = clusters
WithCluster(features, clusters) ==
    [i \in 1..Len(features) |->
        [key |-> features[i].key, values |-> features[i].values, Cluster |-> clusters[i]]]

\* A faulty count: the rows of the first cluster are left out.
ValueCountsWithoutFirst(labelled) ==
    LET used == { labelled[i].Cluster : i \in 1..Len(labelled) } \ {0}
    IN [c \in used |-> Cardinality({ i \in 1..Len(labelled) : labelled[i].Cluster = c })]

\* features['Cluster'].value_counts(): the clusters that have rows, each with
\* the number of its rows.
ValueCounts(labelled) ==
    LET used == { labelled[i].Cluster : i \in 1..Len(labelled) }
    IN [c \in used |-> Cardinality({ i \in 1..Len(labelled) : labelled[i].Cluster = c })]

\* summary_stats: one row for every cluster that has rows, with its Count.
\* (The means of the features and the order of the rows are left out.)
SummaryStats(labelled) == [c \in DOMAIN ValueCounts(labelled) |-> [Count |-> ValueCounts(labelled)[c]]]

InitSegmentation ==
    /\ sg_pc = "start"
    /\ sg_df \in SegTables
    /\ sg_strategy \in Strategies
    /\ sg_features = <<>>
    /\ sg_calls = <<>>
    /\ sg_result = <<"none">>

IdleSegmentation ==
    /\ sg_pc = "off"
    /\ sg_df = <<>>
    /\ sg_strategy = <<>>
    /\ sg_features = <<>>
    /\ sg_calls = <<>>
    /\ sg_result = <<"none">>

\* The empty-table guard and the validation of the strategy's fields.
SgStart ==
    /\ sg_pc = "start"
    /\ \/ /\ sg_df = <<>>
          /\ sg_result' = <<"failed", NoDataToSegment>>
          /\ sg_pc' = "returned"
       \/ /\ sg_df # <<>> /\ IsRfm(sg_strategy) /\ ~RfmFieldsGiven(sg_strategy)
          /\ sg_result' = <<"failed", RfmMissingColumns>>
          /\ sg_pc' = "returned"
       \/ /\ sg_df # <<>> /\ ~IsRfm(sg_strategy) /\ ~FeatureColsGiven(sg_strategy)
          /\ sg_result' = <<"failed", GenericMissingColumns>>
          /\ sg_pc' = "returned"
       \/ /\ sg_df # <<>> /\ ~IsRfm(sg_strategy) /\ FeatureColsGiven(sg_strategy)
          /\ ValidCols(sg_df, sg_strategy) = <<>>
          /\ sg_result' = <<"failed", FeatureColumnsNotFound>>
          /\ sg_pc' = "returned"
       \/ /\ sg_df # <<>>
          /\ \/ IsRfm(sg_strategy) /\ RfmFieldsGiven(sg_strategy)
             \/ /\ ~IsRfm(sg_strategy) /\ FeatureColsGiven(sg_strategy)
                /\ ValidCols(sg_df, sg_strategy) # <<>>
          /\ sg_pc' = "features"
          /\ UNCHANGED sg_result
    /\ UNCHANGED <<sg_df, sg_strategy, sg_features, sg_calls>>

\* Feature construction.  A column the RFM strategy names and the table lacks
\* raises KeyError; so does the mean of a text column; the aggregation of a
\* table without a complete row raises or yields no row, as the library has it.
SgFeatures ==
    /\ sg_pc = "features"
    /\ \/ /\ IsRfm(sg_strategy)
          /\ {sg_strategy["id_col"], sg_strategy["date_col"], sg_strategy["amount_col"]}
                 \subseteq ColumnsOf(sg_df)
          /\ RfmData(sg_df, sg_strategy) # <<>>
          /\ sg_features' = RfmFeatures(RfmData(sg_df, sg_strategy))
          /\ sg_pc' = "core"
          /\ UNCHANGED sg_result
       \/ /\ IsRfm(sg_strategy)
          /\ {sg_strategy["id_col"], sg_strategy["date_col"], sg_strategy["amount_col"]}
                 \subseteq ColumnsOf(sg_df)
          /\ RfmData(sg_df, sg_strategy) = <<>>
          /\ \/ /\ sg_pc' = "core"
                /\ UNCHANGED <<sg_features, sg_result>>
             \/ /\ sg_result' = <<"failed", SegmentationExecutionError>>
                /\ sg_pc' = "returned"
                /\ UNCHANGED sg_features
       \/ /\ IsRfm(sg_strategy)
          /\ ~({sg_strategy["id_col"], sg_strategy["date_col"], sg_strategy["amount_col"]}
                 \subseteq ColumnsOf(sg_df))
          /\ sg_result' = <<"failed", SegmentationExecutionError>>
          /\ sg_pc' = "returned"
          /\ UNCHANGED sg_features
       \/ /\ ~IsRfm(sg_strategy)
          /\ GroupsById(sg_df, sg_strategy)
          /\ \E k \in 1..Len(ValidCols(sg_df, sg_strategy)) :
                ~IsNumericColumn(sg_df, ValidCols(sg_df, sg_strategy)[k])
          /\ sg_result' = <<"failed", SegmentationExecutionError>>
          /\ sg_pc' = "returned"
          /\ UNCHANGED sg_features
       \/ /\ ~IsRfm(sg_strategy)
          /\ ~GroupsById(sg_df, sg_strategy) \/
                \A k \in 1..Len(ValidCols(sg_df, sg_strategy)) :
                    IsNumericColumn(sg_df, ValidCols(sg_df, sg_strategy)[k])
          /\ sg_features' = DropNa(GenericFeatures(sg_df, sg_strategy))
          /\ sg_pc' = "core"
          /\ UNCHANGED sg_result
    /\ UNCHANGED <<sg_df, sg_strategy, sg_calls>>

\* if len(features) < n_clusters: return None, "Not enough data points ..."
SgCore ==
    /\ sg_pc = "core"
    /\ \/ /\ ~EnoughRows(sg_features, DefaultClusters)
          /\ sg_result' = <<"failed", NotEnoughDataPoints>>
          /\ sg_pc' = "returned"
       \/ /\ EnoughRows(sg_features, DefaultClusters)
          /\ sg_pc' = "cluster"
          /\ UNCHANGED sg_result
    /\ UNCHANGED <<sg_df, sg_strategy, sg_features, sg_calls>>

\* Log transform, scaling, K-Means and the summary.  The scaler raises on a
\* table without a numeric column; KMeans.fit_predict raises or gives every row
\* a label from 0 to n_clusters - 1.
SgCluster ==
    /\ sg_pc = "cluster"
    /\ \/ /\ sg_features = <<>> \/ ~HasNumericColumn(sg_features)
          /\ sg_result' = <<"failed", SegmentationExecutionError>>
          /\ UNCHANGED sg_calls
       \/ /\ sg_features # <<>> /\ HasNumericColumn(sg_features)
          /\ sg_calls' = Append(sg_calls, <<"fit_predict", Len(sg_features)>>)
          /\ sg_result' = <<"failed", SegmentationExecutionError>>
       \/ /\ sg_features # <<>> /\ HasNumericColumn(sg_features)
          /\ sg_calls' = Append(sg_calls, <<"fit_predict", Len(sg_features)>>)
          /\ \E clusters \in [1..Len(sg_features) -> 0..(DefaultClusters - 1)] :
                sg_result' = <<"segments", WithCluster(sg_features, clusters),
                               SummaryStats(WithCluster(sg_features, clusters))>>
    /\ sg_pc' = "returned"
    /\ UNCHANGED <<sg_df, sg_strategy, sg_features>>

(***************************************************************************)
(* The SEGMENTATION branch of a Reasoning step: StallionSegmentor          *)
(* .suggest_strategy and the Planner's use of what it returns.             *)
(***************************************************************************)
VARIABLES
    st_pc,        \* "off", "suggest", "branch", "log", "next"
    st_ai,        \* self.ai is set
    st_df,        \* the step's table, as RunQuery returns it
    st_response,  \* response, or None before the call and when it raised
    st_strategy,  \* what suggest_strategy returned, as a JSON value; None is null
    st_calls,     \* the calls made: <<"llm", "strategy">>, <<"execute_segmentation">>
    st_insight,   \* tool_insight
    st_log        \* what the step appended to deep_dive_log after the snapshot

stVars == <<st_pc, st_ai, st_df, st_response, st_strategy, st_calls, st_insight, st_log>>

\* '{"strategy_type":"RFM","id_col":"c","date_col":"d","amount_col":"a"}'
StratRfm ==
    <<"{", "\"", "s", "t", "r", "a", "t", "e", "g", "y", "_", "t", "y", "p", "e", "\"", ":", "\"", "R", "F", "M", "\"", ",", "\"", "i", "d", "_", "c", "o", "l", "\"", ":", "\"", "c", "\"", ",", "\"", "d", "a", "t", "e", "_", "c", "o", "l", "\"", ":", "\"", "d", "\"", ",", "\"", "a", "m", "o", "u", "n", "t", "_", "c", "o", "l", "\"", ":", "\"", "a", "\"", "}">>

\* '```json\n{"strategy_type":"Generic","feature_cols":["v"]}\n```'
StratGenericFenced ==
    <<"^", "^", "^", "j", "s", "o", "n", "\n", "{", "\"", "s", "t", "r", "a", "t", "e", "g", "y", "_", "t", "y", "p", "e", "\"", ":", "\"", "G", "e", "n", "e", "r", "i", "c", "\"", ",", "\"", "f", "e", "a", "t", "u", "r", "e", "_", "c", "o", "l", "s", "\"", ":", "[", "\"", "v", "\"", "]", "}", "\n", "^", "^", "^">>

\* 'Use RFM.'
StratProse ==
    <<"U", "s", "e", " ", "R", "F", "M", ".">>

\* '{"strategy_type":"RFM"'
StratCut ==
    <<"{", "\"", "s", "t", "r", "a", "t", "e", "g", "y", "_", "t", "y", "p", "e", "\"", ":", "\"", "R", "F", "M", "\"">>

\* '{}'
StratEmptyObject ==
    <<"{", "}">>

\* 'null'
StratNull ==
    <<"n", "u", "l", "l">>

\* '42'
StratNumber ==
    <<"4", "2">>

\* '[]'
StratEmptyList ==
    <<"[", "]">>

\* Texts the language model answers the strategy prompt with.
StrategyTexts ==
    {StratRfm, StratGenericFenced, StratProse, StratCut, StratEmptyObject, StratNull,
     StratNumber, StratEmptyList}

\* Python's None, which json.loads also returns for null.
PyNone == <<"lit", "null">>

\* return self.ai._clean_json(response), and None from the except clause when
\* the parser raises.
StrategyOf(response) ==
    IF CleanJson(response).ok THEN CleanJson(response).val ELSE PyNone

\* A faulty branch: clustering runs whatever was returned.
IfStrategyAlways(strategy) == TRUE

\* if strategy: the value counts as true.
IfStrategy(strategy) ==
    CASE strategy[1] = "lit" -> strategy[2] = "true"
      [] strategy[1] = "num" -> \E k \in 1..Len(strategy[2]) : strategy[2][k] \in Digits \ {"0"}
      [] OTHER -> strategy[2] # <<>>

NoStrategyText == "Segmentation failed to determine strategy."

\* summary_md of execute_segmentation: the summary table or a failure's text.
SummaryTexts ==
    {"summary_stats.to_markdown()", RfmMissingColumns, GenericMissingColumns,
     FeatureColumnsNotFound, NotEnoughDataPoints, SegmentationExecutionError}

\* The tables that reach the tool routing: run_query's tables that have rows.
RoutedTables == { RunQuery(o) : o \in { x \in DbOutcomes : ~DfEmpty(RunQuery(x)) } }

InitStrategy ==
    /\ st_pc = "suggest"
    /\ st_ai \in BOOLEAN
    /\ st_df \in RoutedTables
    /\ st_response = None
    /\ st_strategy = PyNone
    /\ st_calls = <<>>
    /\ st_insight = <<>>
    /\ st_log = <<>>

IdleStrategy ==
    /\ st_pc = "off"
    /\ st_ai = FALSE
    /\ st_df = RunQuery(CHOOSE o \in DbOutcomes : o.raises)
    /\ st_response = None
    /\ st_strategy = PyNone
    /\ st_calls = <<>>
    /\ st_insight = <<>>
    /\ st_log = <<>>

\* suggest_strategy: None without an engine; None when the call or the parse
\* raises; else the parsed value.
StSuggest ==
    /\ st_pc = "suggest"
    /\ \/ /\ ~st_ai
          /\ st_strategy' = PyNone
          /\ UNCHANGED <<st_response, st_calls>>
       \/ /\ st_ai
          /\ st_calls' = Append(st_calls, <<"llm", "strategy">>)
          /\ st_strategy' = PyNone
          /\ UNCHANGED st_response
       \/ /\ st_ai
          /\ st_calls' = Append(st_calls, <<"llm", "strategy">>)
          /\ \E response \in StrategyTexts :
                /\ st_response' = response
                /\ st_strategy' = StrategyOf(response)
    /\ st_pc' = "branch"
    /\ UNCHANGED <<st_ai, st_df, st_insight, st_log>>

\* if strategy: execute_segmentation(df, strategy), whose text becomes the
\* insight; else the fixed text.
StBranch ==
    /\ st_pc = "branch"
    /\ \/ /\ IfStrategy(st_strategy)
          /\ st_calls' = Append(st_calls, <<"execute_segmentation">>)
          /\ \E summary_md \in SummaryTexts :
                st_insight' = <<"SEGMENTATION ANALYSIS", summary_md>>
       \/ /\ ~IfStrategy(st_strategy)
          /\ st_insight' = <<NoStrategyText>>
          /\ UNCHANGED st_calls
    /\ st_pc' = "log"
    /\ UNCHANGED <<st_ai, st_df, st_response, st_strategy, st_log>>

\* Log Result: the insight is appended and the loop goes on to the next line.
StLog ==
    /\ st_pc = "log"
    /\ st_log' = IF st_insight # <<>> THEN Append(st_log, <<"tool", st_insight>>) ELSE st_log
    /\ st_pc' = "next"
    /\ UNCHANGED <<st_ai, st_df, st_response, st_strategy, st_calls, st_insight>>

(***************************************************************************)
(* page_planner: "Generate Report" calls generate_enterprise_report and    *)
(* stores the report or shows "Planner Failed".                            *)
(***************************************************************************)
VARIABLES
    pp_pc,      \* "off", "calling", "rerun", "error"
    pp_before,  \* st.session_state["enterprise_report"] at the click, or None
    pp_report,  \* st.session_state["enterprise_report"], or None
    pp_error,   \* the text st.error shows, or None
    pp_recall,  \* the Recall queries in order, each as [label, failed, empty]
    pp_filters  \* st.session_state["active_filters"]: a mapping from column to value

ppVars == <<pp_pc, pp_before, pp_report, pp_error, pp_recall, pp_filters>>

\* The filters the dashboard page left in the session: none, or one set by a
\* click on a chart.
ActiveFilters == { [c \in {} |-> ""], [c \in {"region"} |-> "West"] }

\* '<p>old</p>'
OldReport ==
    <<"<", "p", ">", "o", "l", "d", "<", "/", "p", ">">>

\* What the session holds as its report before the click.
StoredReports == {None, OldReport}

\* "SELECT 'Q' || quarter AS q, sales, cost FROM t | CORRELATION"
LinePipedCorrelation ==
    <<"S", "E", "L", "E", "C", "T", " ", "'", "Q", "'", " ", "|", "|", " ", "q", "u", "a", "r", "t", "e", "r", " ", "A", "S", " ", "q", ",", " ", "s", "a", "l", "e", "s", ",", " ", "c", "o", "s", "t", " ", "F", "R", "O", "M", " ", "t", " ", "|", " ", "C", "O", "R", "R", "E", "L", "A", "T", "I", "O", "N">>

\* 'SELECT sales, cost FROM t | Correlation check'
LineCorrelationMixed ==
    <<"S", "E", "L", "E", "C", "T", " ", "s", "a", "l", "e", "s", ",", " ", "c", "o", "s", "t", " ", "F", "R", "O", "M", " ", "t", " ", "|", " ", "C", "o", "r", "r", "e", "l", "a", "t", "i", "o", "n", " ", "c", "h", "e", "c", "k">>

\* "SELECT COUNT(*) FROM t WHERE note = 'a;b'; | NONE"
LineSemicolonLiteral ==
    <<"S", "E", "L", "E", "C", "T", " ", "C", "O", "U", "N", "T", "(", "*", ")", " ", "F", "R", "O", "M", " ", "t", " ", "W", "H", "E", "R", "E", " ", "n", "o", "t", "e", " ", "=", " ", "'", "a", ";", "b", "'", ";", " ", "|", " ", "N", "O", "N", "E">>

\* The lines of the plans below.
PageLines ==
    {LinePipedCorrelation, LineCorrelationMixed, LineSegmentation, LineForecastFenced,
     LineSemicolonLiteral}

\* Plans of no line and of one line.
PagePlanTexts == {<<"\n">>} \cup { <<"\n">> \o line \o <<"\n">> : line \in PageLines }

InitPage ==
    /\ pp_pc = "calling"
    /\ pp_before \in StoredReports
    /\ pp_report = pp_before
    /\ pp_error = None
    /\ pp_recall = <<>>
    /\ pp_filters \in ActiveFilters

IdlePage ==
    /\ pp_pc = "off"
    /\ pp_before = None
    /\ pp_report = None
    /\ pp_error = None
    /\ pp_recall = <<>>
    /\ pp_filters = [c \in {} |-> ""]

\* The Recall query of a KPI card, with its outcome noted.
PpRecallKpi ==
    \E o \in DbOutcomes :
        /\ PlRecallKpiOn({o})
        /\ pp_recall' =
               IF pl_calls' # pl_calls
               THEN Append(pp_recall, [label |-> pl_config.kpi_cards[pl_k].label,
                                       failed |-> o.raises, empty |-> DfEmpty(RunQuery(o))])
               ELSE pp_recall
        /\ UNCHANGED <<pp_pc, pp_before, pp_report, pp_error, pp_filters>>

\* The Recall query of a chart, with its outcome noted.
PpRecallChart ==
    \E o \in DbOutcomes, renders \in BOOLEAN :
        /\ PlRecallChartOn({o}, {renders})
        /\ pp_recall' =
               IF pl_calls' # pl_calls
               THEN Append(pp_recall, [label |-> pl_config.charts[pl_k].title,
                                       failed |-> o.raises, empty |-> DfEmpty(RunQuery(o))])
               ELSE pp_recall
        /\ UNCHANGED <<pp_pc, pp_before, pp_report, pp_error, pp_filters>>

\* After the call: the report is stored and the page reruns, or the except
\* clause shows the error and the stored report stays.
PpFinish ==
    /\ pp_pc = "calling"
    /\ \/ /\ pl_pc = "returned"
          /\ pp_report' = pl_result[2]
          /\ pp_pc' = "rerun"
          /\ UNCHANGED pp_error
       \/ /\ pl_pc = "raised"
          /\ pp_error' = <<"Planner Failed: ", pl_result[2]>>
          /\ pp_pc' = "error"
          /\ UNCHANGED pp_report
    /\ UNCHANGED <<pp_before, pp_recall, pp_filters>>

(***************************************************************************)
(* Specifications.  Each runs one component while the others stay idle.    *)
(***************************************************************************)
vars == <<cpVars, ciVars, wsVars, plVars, fcVars, efVars, ccVars, sgVars, stVars, ppVars>>

\* The most operations a session performs in the model's runs.
MaxOps == 2

\* One call of StallionCopilot.process_query.
NextCopilotRun ==
    \/ CpInvestigate /\ UNCHANGED <<ciVars, wsVars, plVars, fcVars, efVars, ccVars, sgVars, stVars, ppVars>>
    \/ CpExecute /\ UNCHANGED <<ciVars, wsVars, plVars, fcVars, efVars, ccVars, sgVars, stVars, ppVars>>
    \/ CpRespond /\ UNCHANGED <<ciVars, wsVars, plVars, fcVars, efVars, ccVars, sgVars, stVars, ppVars>>

InitCopilotRun ==
    InitCopilot /\ IdleInterp /\ IdleWorkspace /\ IdlePlanner /\ IdleForecast /\ IdleEngineForecast /\ IdleCorrelations /\ IdleSegmentation /\ IdleStrategy /\ IdlePage

SpecCopilot == InitCopilotRun /\ [][NextCopilotRun]_vars

\* One call of _clean_json on a bare and on a wrapped JSON object.
NextInterpRun == CiParse /\ UNCHANGED <<cpVars, wsVars, plVars, fcVars, efVars, ccVars, sgVars, stVars, ppVars>>

InitInterpRun ==
    InitInterp /\ IdleCopilot /\ IdleWorkspace /\ IdlePlanner /\ IdleForecast /\ IdleEngineForecast /\ IdleCorrelations /\ IdleSegmentation /\ IdleStrategy /\ IdlePage

SpecInterp == InitInterpRun /\ [][NextInterpRun]_vars

\* One session working on the workspace file.
NextWorkspaceRun ==
    \/ WsSaveStart(1, MaxOps) /\ UNCHANGED <<cpVars, ciVars, plVars, fcVars, efVars, ccVars, sgVars, stVars, ppVars>>
    \/ WsSaveRead(1) /\ UNCHANGED <<cpVars, ciVars, plVars, fcVars, efVars, ccVars, sgVars, stVars, ppVars>>
    \/ WsSaveWrite(1) /\ UNCHANGED <<cpVars, ciVars, plVars, fcVars, efVars, ccVars, sgVars, stVars, ppVars>>
    \/ WsLoad(1, MaxOps) /\ UNCHANGED <<cpVars, ciVars, plVars, fcVars, efVars, ccVars, sgVars, stVars, ppVars>>
    \/ WsDeleteRead(1, MaxOps) /\ UNCHANGED <<cpVars, ciVars, plVars, fcVars, efVars, ccVars, sgVars, stVars, ppVars>>
    \/ WsDeleteWrite(1) /\ UNCHANGED <<cpVars, ciVars, plVars, fcVars, efVars, ccVars, sgVars, stVars, ppVars>>

InitWorkspaceRun ==
    InitWorkspaceWith({1}) /\ IdleCopilot /\ IdleInterp /\ IdlePlanner /\ IdleForecast /\ IdleEngineForecast /\ IdleCorrelations /\ IdleSegmentation /\ IdleStrategy /\ IdlePage

SpecWorkspace == InitWorkspaceRun /\ [][NextWorkspaceRun]_vars

\* Two sessions, each saving once, their steps interleaved in every order.
NextWorkspaceRace ==
    \E s \in Sessions :
        \/ WsSaveStart(s, 1) /\ UNCHANGED <<cpVars, ciVars, plVars, fcVars, efVars, ccVars, sgVars, stVars, ppVars>>
        \/ WsSaveRead(s) /\ UNCHANGED <<cpVars, ciVars, plVars, fcVars, efVars, ccVars, sgVars, stVars, ppVars>>
        \/ WsSaveWrite(s) /\ UNCHANGED <<cpVars, ciVars, plVars, fcVars, efVars, ccVars, sgVars, stVars, ppVars>>

InitWorkspaceRace ==
    InitWorkspaceWith(Sessions) /\ IdleCopilot /\ IdleInterp /\ IdlePlanner /\ IdleForecast /\ IdleEngineForecast /\ IdleCorrelations /\ IdleSegmentation /\ IdleStrategy /\ IdlePage

SpecWorkspaceRace == InitWorkspaceRace /\ [][NextWorkspaceRace]_vars

\* One call of StallionPlanner.generate_enterprise_report.
NextPlannerRun ==
    \/ PlRecallKpi /\ UNCHANGED <<cpVars, ciVars, wsVars, fcVars, efVars, ccVars, sgVars, stVars, ppVars>>
    \/ PlRecallChart /\ UNCHANGED <<cpVars, ciVars, wsVars, fcVars, efVars, ccVars, sgVars, stVars, ppVars>>
    \/ PlHypothesis /\ UNCHANGED <<cpVars, ciVars, wsVars, fcVars, efVars, ccVars, sgVars, stVars, ppVars>>
    \/ PlStep /\ UNCHANGED <<cpVars, ciVars, wsVars, fcVars, efVars, ccVars, sgVars, stVars, ppVars>>
    \/ PlLayout /\ UNCHANGED <<cpVars, ciVars, wsVars, fcVars, efVars, ccVars, sgVars, stVars, ppVars>>

InitPlannerRun ==
    InitPlanner /\ IdleCopilot /\ IdleInterp /\ IdleWorkspace /\ IdleForecast /\ IdleEngineForecast /\ IdleCorrelations /\ IdleSegmentation /\ IdleStrategy /\ IdlePage

SpecPlanner == InitPlannerRun /\ [][NextPlannerRun]_vars

\* One call of StallionForecaster.generate_forecast.
NextForecastRun ==
    \/ FcPrepare /\ UNCHANGED <<cpVars, ciVars, wsVars, plVars, efVars, ccVars, sgVars, stVars, ppVars>>
    \/ FcFit /\ UNCHANGED <<cpVars, ciVars, wsVars, plVars, efVars, ccVars, sgVars, stVars, ppVars>>
    \/ FcGrowth /\ UNCHANGED <<cpVars, ciVars, wsVars, plVars, efVars, ccVars, sgVars, stVars, ppVars>>

InitForecastRun ==
    InitForecast /\ IdleCopilot /\ IdleInterp /\ IdleWorkspace /\ IdlePlanner /\ IdleEngineForecast /\ IdleCorrelations /\ IdleSegmentation /\ IdleStrategy /\ IdlePage

SpecForecast == InitForecastRun /\ [][NextForecastRun]_vars

\* One call of StallionAnalyticsEngine.generate_forecast.
NextEngineForecastRun ==
    \/ EfGuard /\ UNCHANGED <<cpVars, ciVars, wsVars, plVars, fcVars, ccVars, sgVars, stVars, ppVars>>
    \/ EfPrep /\ UNCHANGED <<cpVars, ciVars, wsVars, plVars, fcVars, ccVars, sgVars, stVars, ppVars>>
    \/ EfFit /\ UNCHANGED <<cpVars, ciVars, wsVars, plVars, fcVars, ccVars, sgVars, stVars, ppVars>>

InitEngineForecastRun ==
    InitEngineForecast /\ IdleCopilot /\ IdleInterp /\ IdleWorkspace /\ IdlePlanner /\ IdleForecast /\ IdleCorrelations /\ IdleSegmentation /\ IdleStrategy /\ IdlePage

SpecEngineForecast == InitEngineForecastRun /\ [][NextEngineForecastRun]_vars

\* One call of StallionAnalyticsEngine.check_correlations.
NextCorrelationsRun ==
    \/ CcSelect /\ UNCHANGED <<cpVars, ciVars, wsVars, plVars, fcVars, efVars, sgVars, stVars, ppVars>>
    \/ CcScan /\ UNCHANGED <<cpVars, ciVars, wsVars, plVars, fcVars, efVars, sgVars, stVars, ppVars>>
    \/ CcReport /\ UNCHANGED <<cpVars, ciVars, wsVars, plVars, fcVars, efVars, sgVars, stVars, ppVars>>

InitCorrelationsRun ==
    InitCorrelations /\ IdleCopilot /\ IdleInterp /\ IdleWorkspace /\ IdlePlanner /\ IdleForecast /\ IdleEngineForecast /\ IdleSegmentation /\ IdleStrategy /\ IdlePage

SpecCorrelations == InitCorrelationsRun /\ [][NextCorrelationsRun]_vars

\* One call of StallionSegmentor.execute_segmentation.
NextSegmentationRun ==
    \/ SgStart /\ UNCHANGED <<cpVars, ciVars, wsVars, plVars, fcVars, efVars, ccVars, stVars, ppVars>>
    \/ SgFeatures /\ UNCHANGED <<cpVars, ciVars, wsVars, plVars, fcVars, efVars, ccVars, stVars, ppVars>>
    \/ SgCore /\ UNCHANGED <<cpVars, ciVars, wsVars, plVars, fcVars, efVars, ccVars, stVars, ppVars>>
    \/ SgCluster /\ UNCHANGED <<cpVars, ciVars, wsVars, plVars, fcVars, efVars, ccVars, stVars, ppVars>>

InitSegmentationRun ==
    InitSegmentation /\ IdleCopilot /\ IdleInterp /\ IdleWorkspace /\ IdlePlanner /\ IdleForecast /\ IdleEngineForecast /\ IdleCorrelations /\ IdleStrategy /\ IdlePage

SpecSegmentation == InitSegmentationRun /\ [][NextSegmentationRun]_vars

\* The SEGMENTATION branch of one Reasoning step.
NextStrategyRun ==
    \/ StSuggest /\ UNCHANGED <<cpVars, ciVars, wsVars, plVars, fcVars, efVars, ccVars, sgVars, ppVars>>
    \/ StBranch /\ UNCHANGED <<cpVars, ciVars, wsVars, plVars, fcVars, efVars, ccVars, sgVars, ppVars>>
    \/ StLog /\ UNCHANGED <<cpVars, ciVars, wsVars, plVars, fcVars, efVars, ccVars, sgVars, ppVars>>

InitStrategyRun ==
    InitStrategy /\ IdleCopilot /\ IdleInterp /\ IdleWorkspace /\ IdlePlanner /\ IdleForecast /\ IdleEngineForecast /\ IdleCorrelations /\ IdleSegmentation /\ IdlePage

SpecStrategy == InitStrategyRun /\ [][NextStrategyRun]_vars

\* One click of "Generate Report" on the Planner page.
NextPageRun ==
    \/ PpRecallKpi /\ UNCHANGED <<cpVars, ciVars, wsVars, fcVars, efVars, ccVars, sgVars, stVars>>
    \/ PpRecallChart /\ UNCHANGED <<cpVars, ciVars, wsVars, fcVars, efVars, ccVars, sgVars, stVars>>
    \/ PlHypothesisFrom(PagePlanTexts) /\ UNCHANGED <<ppVars>> /\ UNCHANGED <<cpVars, ciVars, wsVars, fcVars, efVars, ccVars, sgVars, stVars>>
    \/ PlStep /\ UNCHANGED <<ppVars>> /\ UNCHANGED <<cpVars, ciVars, wsVars, fcVars, efVars, ccVars, sgVars, stVars>>
    \/ PlLayout /\ UNCHANGED <<ppVars>> /\ UNCHANGED <<cpVars, ciVars, wsVars, fcVars, efVars, ccVars, sgVars, stVars>>
    \/ PpFinish /\ UNCHANGED <<plVars>> /\ UNCHANGED <<cpVars, ciVars, wsVars, fcVars, efVars, ccVars, sgVars, stVars>>

InitPageRun ==
    InitPage /\ InitPlanner /\ IdleCopilot /\ IdleInterp /\ IdleWorkspace /\ IdleForecast /\ IdleEngineForecast /\ IdleCorrelations /\ IdleSegmentation /\ IdleStrategy

SpecPage == InitPageRun /\ [][NextPageRun]_vars

\* The operations that call a gateway outside the Planner: one call of
\* process_query, or one SEGMENTATION branch, or one session on the workspace.
NextGatewaysRun ==
    \/ NextCopilotRun
    \/ NextStrategyRun
    \/ NextWorkspaceRun

InitGatewaysRun ==
    \/ InitCopilotRun
    \/ InitStrategyRun
    \/ InitWorkspaceRun

SpecGateways == InitGatewaysRun /\ [][NextGatewaysRun]_vars

\* The application: a run of any one component.
Init ==
    \/ InitCopilotRun
    \/ InitInterpRun
    \/ InitWorkspaceRun
    \/ InitPlannerRun
    \/ InitForecastRun
    \/ InitEngineForecastRun
    \/ InitCorrelationsRun
    \/ InitSegmentationRun
    \/ InitStrategyRun
    \/ InitPageRun

Next ==
    \/ NextCopilotRun
    \/ NextInterpRun
    \/ NextWorkspaceRun
    \/ NextPlannerRun
    \/ NextForecastRun
    \/ NextEngineForecastRun
    \/ NextCorrelationsRun
    \/ NextSegmentationRun
    \/ NextStrategyRun
    \/ NextPageRun

Spec == Init /\ [][Next]_vars

(***************************************************************************)
(* Properties of the Investigation Planner                                 *)
(***************************************************************************)

IsReasoningQuery(c) == c[1] = "sql" /\ c[2] = "reasoning"

\* The queries the Reasoning phase has run, in order.
ReasoningQueries == SelectSeq(pl_calls, IsReasoningQuery)

\* The queries of the plan's first n lines that hold a separator, in order.
PlannedQueries(n) ==
    LET steps == SelectSeq(SubSeq(pl_lines, 1, n), HasSeparator)
    IN [k \in 1..Len(steps) |-> <<"sql", "reasoning", StepSql(steps[k])>>]

IsReportCall(c) == c = <<"llm", "report">>

\* C1: once the plan is there, whatever each step's outcome, every plan line
\* that holds a separator is executed in its turn and the Layout synthesis call
\* is made: the loop leaves a line only for the next one, Layout starts only
\* after the last line, and the run ends only after the synthesis call.
C1_NoStepFailureAborts ==
    pl_raw_plan # None =>
        /\ pl_pc \in {"reasoning", "layout", "returned", "raised"}
        /\ ReasoningQueries = PlannedQueries(pl_i - 1)
        /\ pl_pc = "reasoning" => pl_i <= Len(pl_lines) + 1
        /\ pl_pc # "reasoning" => pl_i = Len(pl_lines) + 1
        /\ pl_pc \in {"returned", "raised"} =>
               /\ Len(SelectSeq(pl_calls, IsReportCall)) = 1
               /\ pl_calls[Len(pl_calls)] = <<"llm", "report">>

\* A finished run whose first step raised and whose second step was executed.
C1_FailedStepThenNextStep ==
    /\ pl_pc = "returned"
    /\ Len(pl_deep_log) >= 2
    /\ pl_deep_log[2][1] = "error"
    /\ Len(ReasoningQueries) = 2

\* C2: a failure of a language-model call or SQL query in Recall, Hypothesis or
\* Reasoning does not abort the run: every run that ends has made the final
\* synthesis call.  The plan-generation call stands outside any try block, so
\* this fails.
C2_EveryRunReachesSynthesis ==
    pl_pc \in {"returned", "raised"} => SelectSeq(pl_calls, IsReportCall) # <<>>

IsErrorEntry(e) == e[1] = "error"

\* The lines of a plan text that hold a separator, as positions.
SeparatorLines(lines) == { n \in 1..Len(lines) : HasSeparator(lines[n]) }

\* C17: the steps the Planner executes are the plan's lines that hold the
\* separator, one query each: a line without a separator runs no query, logs no
\* error and leaves the later lines their turn.
C17_StepsAreSeparatorLines ==
    pl_raw_plan # None =>
        /\ pl_lines = SplitPlan(pl_raw_plan)
        /\ Len(ReasoningQueries) =
               Cardinality({ n \in SeparatorLines(pl_lines) : n < pl_i })
        /\ pl_pc # "reasoning" =>
               Len(ReasoningQueries) = Cardinality(SeparatorLines(pl_lines))
        /\ Len(SelectSeq(pl_deep_log, IsErrorEntry)) <= Len(ReasoningQueries)
        /\ SeparatorLines(pl_lines) = {} => pl_deep_log = <<>>

\* A finished run whose plan has a line without a separator before a line with
\* one: the second line's query was run.
C17_PlainLineThenStep ==
    /\ pl_pc = "returned"
    /\ Len(pl_lines) = 2
    /\ ~HasSeparator(pl_lines[1])
    /\ HasSeparator(pl_lines[2])
    /\ ReasoningQueries = << <<"sql", "reasoning", StepSql(pl_lines[2])>> >>

IsStatisticalInsight(e) ==
    /\ e[1] = "tool"
    /\ e[3] \in {"detect_anomalies(df, df.columns[1])",
                 "generate_forecast(df, df.columns[0], df.columns[1])"}

\* The lines of the plan whose step ran the query sql.
LinesOf(sql) ==
    { pl_lines[n] : n \in { m \in SeparatorLines(pl_lines) : StepSql(pl_lines[m]) = sql } }

\* C19: an ANOMALY or FORECAST tool runs only on a table of two or more
\* columns, the anomaly tool on column 1 and the forecast on columns 0 and 1;
\* on a narrower table the step of such a line logs its rows and no tool
\* result.
C19_StatisticalToolsNeedTwoColumns ==
    \A k \in 1..Len(pl_deep_log) :
        /\ IsStatisticalInsight(pl_deep_log[k]) =>
              /\ pl_deep_log[k - 1][1] = "snapshot"
              /\ pl_deep_log[k - 1][3] >= 2
        /\ pl_deep_log[k][1] = "tool" /\ Contains(pl_deep_log[k][2], KwAnomaly) =>
              pl_deep_log[k][3] = "detect_anomalies(df, df.columns[1])"
        /\ pl_deep_log[k][1] = "tool" /\ Contains(pl_deep_log[k][2], KwForecast) =>
              pl_deep_log[k][3] = "generate_forecast(df, df.columns[0], df.columns[1])"
        /\ /\ pl_deep_log[k][1] = "snapshot"
           /\ pl_deep_log[k][3] < 2
           /\ \A line \in LinesOf(pl_deep_log[k - 1][2]) :
                 Contains(StepTool(line), KwAnomaly) \/ Contains(StepTool(line), KwForecast)
           => k = Len(pl_deep_log) \/ pl_deep_log[k + 1][1] # "tool"

\* A finished run of an ANOMALY line and a FORECAST line: the first step's
\* table had one column and only its rows were logged, the second's had two
\* and was forecast.
C19_NarrowTableThenForecast ==
    /\ pl_pc = "returned"
    /\ pl_lines = <<LineAnomaly, LineForecastFenced>>
    /\ Len(pl_deep_log) = 5
    /\ pl_deep_log[2] = <<"snapshot", 3, 1>>
    /\ pl_deep_log[3][1] = "query"
    /\ pl_deep_log[4] = <<"snapshot", SampleRows, 2>>
    /\ IsStatisticalInsight(pl_deep_log[5])

(***************************************************************************)
(* Properties of the Copilot's reasoning loop                              *)
(***************************************************************************)

\* The Respond phase failed: its language-model call raised, or its text did
\* not parse.
RespondFailed == cp_pc = "returned" /\ (cp_raw = None \/ ~CleanJson(cp_raw).ok)

\* The failure's own message: the gateway's, or the parser's.
FailureText == IF cp_raw = None THEN LlmErrorText ELSE CleanJson(cp_raw).msg

\* A response envelope: a mapping whose response_type is one of the three types.
IsEnvelope(v) ==
    /\ IsObject(v)
    /\ HasKey(v, KeyResponseType)
    /\ ObjGet(v, KeyResponseType) \in
           {<<"str", TextAnswer>>, <<"str", UpdateDashboard>>, <<"str", UpdateExecutiveSummary>>}

\* C3: process_query never propagates a gateway failure to its caller: no run
\* ends with an exception raised out of process_query.  The language-model call
\* of the Investigate phase stands outside any try block, so this fails.
C3_NoFailurePropagates == cp_pc # "raised"

\* C4: when the Respond phase fails (its language-model call raises, or its text
\* does not parse), process_query returns an envelope whose response_type is
\* text_answer, whose content is a string describing the failure and whose
\* suggestions is a list.
C4_RespondFailureYieldsFallback ==
    RespondFailed =>
        /\ cp_result[1] = "return"
        /\ IsObject(cp_result[2])
        /\ HasKey(cp_result[2], KeyResponseType)
        /\ ObjGet(cp_result[2], KeyResponseType) = <<"str", TextAnswer>>
        /\ HasKey(cp_result[2], KeyContent)
        /\ ObjGet(cp_result[2], KeyContent)[1] = "str"
        /\ Contains(ObjGet(cp_result[2], KeyContent)[2], ReasoningErrorPrefix)
        /\ Contains(ObjGet(cp_result[2], KeyContent)[2], FailureText)
        /\ HasKey(cp_result[2], KeySuggestions)
        /\ ObjGet(cp_result[2], KeySuggestions)[1] = "arr"

\* A run whose Respond text did not parse and was answered with the fallback.
C4_ParseFailureReturned ==
    /\ cp_pc = "returned"
    /\ cp_raw # None
    /\ ~CleanJson(cp_raw).ok
    /\ cp_result[1] = "return"

\* C5: when the Respond text does not parse, the fallback envelope's content
\* contains the raw text.  The code puts the parser's message there instead, so
\* this fails.
C5_FallbackContentHoldsRawText ==
    (cp_pc = "returned" /\ cp_raw # None /\ ~CleanJson(cp_raw).ok) =>
        /\ HasKey(cp_result[2], KeyContent)
        /\ ObjGet(cp_result[2], KeyContent)[1] = "str"
        /\ Contains(ObjGet(cp_result[2], KeyContent)[2], cp_raw)

\* C6: every value process_query returns is an envelope whose response_type is
\* text_answer, update_dashboard or update_executive_summary.  The parsed value
\* is returned unvalidated, so this fails.
C6_EveryReturnIsEnvelope == cp_pc = "returned" => IsEnvelope(cp_result[2])

(***************************************************************************)
(* Properties of the workspace store                                       *)
(***************************************************************************)

\* The session other than s.
OtherSession(s) == CHOOSE t \in Sessions : t # s

\* Both sessions' saves have returned, under different ids.
BothSaved ==
    /\ \A s \in Sessions : ws_pc[s] = "idle" /\ ws_hist.saved[s] # None
    /\ ws_hist.saved[1][2].id # ws_hist.saved[2][2].id

\* C7: two sessions saving under different ids.  The later writer's record is
\* always in the file.  When the later writer read the file before the earlier
\* writer wrote it (both read before either writes), the earlier writer's
\* record is lost; when the saves do not overlap, both records are in the file.
C7_LostUpdateExactlyOnOverlap ==
    BothSaved =>
        LET later == ws_hist.last
            earlier == OtherSession(ws_hist.last)
            rec_later == ws_hist.saved[later][2]
            rec_earlier == ws_hist.saved[earlier][2]
        IN /\ LoadWork(ws_file, rec_later.id) = Some(rec_later)
           /\ ws_hist.lost[later] =>
                  /\ LoadWork(ws_file, rec_earlier.id) # Some(rec_earlier)
                  /\ ws_file = StorePut(ws_hist.file0, rec_later.id, rec_later)
           /\ ~ws_hist.lost[later] =>
                  /\ LoadWork(ws_file, rec_earlier.id) = Some(rec_earlier)

\* Both saves returned after overlapping, and the earlier writer's record is
\* not in the file.
C7_UpdateLost ==
    /\ BothSaved
    /\ ws_hist.lost[ws_hist.last]
    /\ ws_hist.saved[OtherSession(ws_hist.last)][2].id \notin DOMAIN ws_file

\* The session's last operation was a save_work that has returned.
SaveReturned(s) == ws_pc[s] = "idle" /\ ws_ret[s].op = "save"

\* C8: after save_work(name, description, config) returns, load_work on the id
\* derived from the name returns a record holding that name, description and
\* config; it stands in place of any record the file held under that id, and
\* the records under the other ids are as they were.
C8_SaveThenLoad ==
    SaveReturned(1) =>
        LET a == ws_hist.args[1][2]
            before == ws_hist.before[1]
            got == LoadWork(ws_file, WorkId(a.name))
        IN /\ ws_ret[1].value = TRUE
           /\ got # None
           /\ got[2].name = a.name
           /\ got[2].description = a.description
           /\ got[2].config = a.config
           /\ got[2].id = WorkId(a.name)
           /\ DOMAIN ws_file = DOMAIN before \cup {WorkId(a.name)}
           /\ \A k \in DOMAIN before \ {WorkId(a.name)} : ws_file[k] = before[k]

\* A save that replaced a record of the same id while the file held another id.
C8_ReplacedAmongOthers ==
    /\ SaveReturned(1)
    /\ WorkId(ws_hist.args[1][2].name) \in DOMAIN ws_hist.before[1]
    /\ ws_hist.before[1][WorkId(ws_hist.args[1][2].name)] # ws_file[WorkId(ws_hist.args[1][2].name)]
    /\ DOMAIN ws_hist.before[1] \ {WorkId(ws_hist.args[1][2].name)} # {}

(***************************************************************************)
(* Properties of the Response Interpreter                                  *)
(***************************************************************************)

\* s holds neither "{" nor "}".
NoBrace(s) == \A i \in 1..Len(s) : s[i] \notin {"{", "}"}

\* The wrapped text parsed to the value the bare object parsed to.
SameParse == ci_bare.ok /\ ci_wrapped.ok /\ ci_wrapped.val = ci_bare.val

\* C9 as stated: for every valid JSON object and every surrounding prose,
\* _clean_json of the object in fenced-code markers with that prose around it
\* returns the same object as _clean_json of the bare object.
C9_RoundTripAnyProse == ci_pc = "done" => SameParse

\* C9, amended: the round trip holds for every valid JSON object and every
\* surrounding prose that holds no "{" and no "}".  (The span runs from the
\* first "{" to the last "}" of the whole text, so a brace in the prose moves it.)
C9_RoundTripProseWithoutBraces ==
    (ci_pc = "done" /\ NoBrace(ci_before) /\ NoBrace(ci_after)) => SameParse

\* An object parsed out of a fenced block with brace-free prose on both sides.
C9_WrappedParsed ==
    /\ ci_pc = "done"
    /\ ci_before # <<>> /\ ci_after # <<>>
    /\ NoBrace(ci_before) /\ NoBrace(ci_after)
    /\ ci_wrapped.ok

(***************************************************************************)
(* Properties of the forecast's growth scenario                            *)
(***************************************************************************)

\* a - b, over the common denominator when the two already share one.
RatSub(a, b) ==
    IF a[2] = b[2] THEN <<a[1] - b[1], a[2]>>
    ELSE <<a[1] * b[2] - b[1] * a[2], a[2] * b[2]>>

\* A forecast table came back with a growth scenario applied.
ScenarioApplied == fc_pc = "returned" /\ fc_result[1] = "table" /\ fc_growth # 0

\* Step k of the table is the base forecast times multiplier m.
StepScaledBy(k, m) == RatEq(fc_result[2][k], RatMul(<<fc_base[k], 1>>, m))

\* The multipliers applied are one per step, rising by equal increments.
LinearRamp ==
    /\ Len(fc_modifiers) = fc_periods
    /\ Len(fc_result[2]) = fc_periods
    /\ \A k \in 1..fc_periods : StepScaledBy(k, fc_modifiers[k])
    /\ \A k \in 1..(fc_periods - 2) :
          RatEq(RatSub(fc_modifiers[k + 2], fc_modifiers[k + 1]),
                RatSub(fc_modifiers[k + 1], fc_modifiers[k]))

C11_FewMonthlyPointsGetTooShortText ==
    /\ ef_pc = "returned"
    /\ ef_df.has_date_col
    /\ DropUndated(ef_df.rows) # <<>>
    /\ MonthlyPoints(DropUndated(ef_df.rows)) < MinSeasonalRows
    => ef_result = <<"text", DataTooShort>>

(***************************************************************************)
(* Properties of StallionAnalyticsEngine.check_correlations                *)
(***************************************************************************)

\* The pairs of numeric columns whose correlation is strong.
StrongPairs == { p \in DOMAIN cc_corr : IsStrong(cc_corr[p]) }

\* The cells of the reported insights.
ReportedPairs ==
    { p \in DOMAIN cc_corr :
        \E k \in 1..Len(cc_result[2]) :
            /\ cc_result[2][k].col1 = cc_numeric[p[1]]
            /\ cc_result[2][k].col2 = cc_numeric[p[2]]
            /\ cc_result[2][k].score = cc_corr[p] }

\* C12: the call reports only strong pairs of numeric columns, at most 5 of
\* them; when more than 5 pairs are strong the reported ones are the 5 of
\* greatest absolute correlation; when no pair of two or more numeric columns
\* is strong it returns the fixed text.  The code reports the first 5 in the
\* order of the loops, whatever their strength.
C12_ReportsTheFiveStrongest ==
    cc_pc = "returned" /\ Len(cc_numeric) >= 2 =>
        IF StrongPairs = {}
        THEN cc_result = <<"text", NoStrongCorrelations>>
        ELSE /\ cc_result[1] = "correlations"
             /\ Len(cc_result[2]) <= MaxInsights
             /\ Cardinality(ReportedPairs) = Len(cc_result[2])
             /\ ReportedPairs \subseteq StrongPairs
             /\ Cardinality(StrongPairs) <= MaxInsights => ReportedPairs = StrongPairs
             /\ \A p \in ReportedPairs, q \in StrongPairs \ ReportedPairs :
                    Abs(cc_corr[p]) >= Abs(cc_corr[q])

(***************************************************************************)
(* Properties of StallionSegmentor.execute_segmentation                    *)
(***************************************************************************)

\* The strategy lacks the fields its path requires.
LacksRequiredFields(config) ==
    \/ IsRfm(config) /\ ~RfmFieldsGiven(config)
    \/ ~IsRfm(config) /\ ~FeatureColsGiven(config)

\* The texts a failed call returns.
FailureTexts ==
    {NoDataToSegment, RfmMissingColumns, GenericMissingColumns, FeatureColumnsNotFound,
     NotEnoughDataPoints, SegmentationExecutionError}

\* C13: execute_segmentation never raises, and a call whose strategy lacks its
\* required fields, or whose features hold fewer rows than n_clusters, returns
\* (None, text) without a call of the clustering.
C13_TooFewRowsOrMissingFieldsFailSoft ==
    /\ sg_pc \in {"off", "start", "features", "core", "cluster", "returned"}
    /\ sg_pc = "returned" => sg_result[1] \in {"failed", "segments"}
    /\ sg_pc = "returned"
          /\ (LacksRequiredFields(sg_strategy) \/ Len(sg_features) < DefaultClusters)
       => /\ sg_result[1] = "failed"
          /\ sg_result[2] \in FailureTexts
          /\ sg_calls = <<>>

\* A call whose features were built and hold fewer rows than n_clusters has
\* returned.
C13_TooFewRowsReturned ==
    /\ sg_pc = "returned"
    /\ sg_features # <<>>
    /\ Len(sg_features) < DefaultClusters
    /\ sg_result = <<"failed", NotEnoughDataPoints>>

RECURSIVE SumCounts(_, _)
\* The sum of the Count column over the clusters of S.
SumCounts(summary, S) ==
    IF S = {} THEN 0
    ELSE LET c == CHOOSE x \in S : TRUE
         IN summary[c].Count + SumCounts(summary, S \ {c})

\* C14: when the call succeeds, the returned table holds every feature row once,
\* each with one Cluster label from 0 to n_clusters - 1, and the Counts of the
\* summary sum to the number of feature rows.
C14_OneLabelEachAndCountsSum ==
    sg_pc = "returned" /\ sg_result[1] = "segments" =>
        LET labelled == sg_result[2]
            summary == sg_result[3]
        IN /\ Len(labelled) = Len(sg_features)
           /\ \A i \in 1..Len(labelled) :
                 /\ labelled[i].key = sg_features[i].key
                 /\ labelled[i].Cluster \in 0..(DefaultClusters - 1)
                 /\ \A j \in 1..Len(labelled) : labelled[j].key = labelled[i].key => j = i
           /\ SumCounts(summary, DOMAIN summary) = Len(sg_features)

\* A call that dropped rows of its table has succeeded with rows in more than
\* one cluster.
C14_SegmentsAfterDroppedRows ==
    /\ sg_pc = "returned"
    /\ sg_result[1] = "segments"
    /\ Len(sg_result[2]) < Len(sg_df)
    /\ Cardinality(DOMAIN sg_result[3]) >= 2

(***************************************************************************)
(* Properties of the SEGMENTATION branch                                   *)
(***************************************************************************)

\* suggest_strategy met a failure: no engine, a call that raised, or an answer
\* the parser rejects.
SuggestFailed ==
    \/ ~st_ai
    \/ st_response = None
    \/ ~CleanJson(st_response).ok

IsExecuteSegmentation(c) == c = <<"execute_segmentation">>

\* C15: suggest_strategy never raises and returns None on every failure; the
\* Planner calls execute_segmentation, once, exactly when the returned value
\* counts as a strategy (it passes "if strategy"), and otherwise logs the fixed
\* text; either way the step ends with the loop going on to the next line.
C15_StrategyOrSkip ==
    /\ st_pc \in {"off", "suggest", "branch", "log", "next"}
    /\ st_pc \in {"branch", "log", "next"} /\ SuggestFailed => st_strategy = PyNone
    /\ st_pc \in {"log", "next"} =>
          /\ IfStrategy(st_strategy) <=>
                 Len(SelectSeq(st_calls, IsExecuteSegmentation)) = 1
          /\ ~IfStrategy(st_strategy) <=> SelectSeq(st_calls, IsExecuteSegmentation) = <<>>
          /\ IsObject(st_strategy) /\ st_strategy[2] # <<>> =>
                 Len(SelectSeq(st_calls, IsExecuteSegmentation)) = 1
          /\ st_strategy = PyNone =>
                 /\ SelectSeq(st_calls, IsExecuteSegmentation) = <<>>
                 /\ st_insight = <<NoStrategyText>>

\* A step whose strategy answer could not be parsed has gone on to the next
\* line without clustering.
C15_MalformedAnswerSkipped ==
    /\ st_pc = "next"
    /\ st_response # None
    /\ ~CleanJson(st_response).ok
    /\ st_log = << <<"tool", <<NoStrategyText>>>> >>
    /\ SelectSeq(st_calls, IsExecuteSegmentation) = <<>>

(***************************************************************************)
(* Properties of the Planner page                                          *)
(***************************************************************************)

\* The Layout call was made and raised.
LayoutFailed ==
    /\ pl_pc = "raised"
    /\ pl_calls # <<>>
    /\ IsReportCall(pl_calls[Len(pl_calls)])

\* C16: a failed Layout call leaves generate_enterprise_report without a
\* report; the page shows the terminal error and keeps the stored report; and
\* the terminal error is shown for no other failure.  A failed Hypothesis call
\* raises out of the Planner just the same, so the last part fails.
C16_TerminalErrorOnlyForLayoutFailure ==
    /\ LayoutFailed => pl_result[1] = "raise"
    /\ pp_pc \in {"rerun", "error"} /\ LayoutFailed =>
          /\ pp_error # None
          /\ pp_report = pp_before
    /\ pp_error # None => LayoutFailed

\* The audited items of the baseline text, in order: the labels of its KPI and
\* chart entries.
AuditedLabels ==
    LET entry(e) == e[1] \in {"kpi", "chart"}
        entries == SelectSeq(pl_context_log, entry)
    IN [k \in 1..Len(entries) |-> entries[k][2]]

\* The items whose Recall query did not fail, in configuration order.
SucceededLabels ==
    LET succeeded(r) == ~r.failed
        items == SelectSeq(pp_recall, succeeded)
    IN [k \in 1..Len(items) |-> items[k].label]

\* C20: the baseline audit text holds an entry for every KPI and chart whose
\* query succeeded, in configuration order, and none for one whose query
\* failed.  run_query returns an empty table for a failed query, and a KPI's
\* entry is written for an empty table too, with "N/A".
C20_FailedRecallQuerySkipped ==
    pl_pc \notin {"off", "recall_kpi", "recall_chart"} => AuditedLabels = SucceededLabels

\* parts[-1]: the text after the line's last separator.
LastPart(line) == Split(line, "|")[Len(Split(line, "|"))]

ToolNames == {"SEGMENTATION", "ANOMALY", "FORECAST", "CORRELATION"}

Keyword(name) ==
    CASE name = "SEGMENTATION" -> KwSegmentation
      [] name = "ANOMALY" -> KwAnomaly
      [] name = "FORECAST" -> KwForecast
      [] name = "CORRELATION" -> KwCorrelation

\* The tools a text names, in whatever case and with whatever around them.
NamedTools(text) == { name \in ToolNames : Contains(Upper(text), Keyword(name)) }

\* The lines of the plan that hold a separator.
StepLines == { pl_lines[n] : n \in { m \in 1..Len(pl_lines) : HasSeparator(pl_lines[m]) } }

\* C18: a step whose query gave rows is routed to the tool its line names after
\* the separator, also when the SQL text holds the separator itself, and to no
\* second tool.  (The tools that ask for two columns are counted only for
\* tables of two columns.)  The code takes the text between the first and the
\* second separator as the tool's name.
C18_RoutedToToolAfterSeparator ==
    \A k \in 1..Len(pl_deep_log) :
        /\ pl_deep_log[k][1] = "tool" => pl_deep_log[k - 1][1] = "snapshot"
        /\ pl_deep_log[k][1] = "snapshot" =>
              \A line \in StepLines, name \in ToolNames :
                  /\ StepSql(line) = pl_deep_log[k - 1][2]
                  /\ NamedTools(LastPart(line)) = {name}
                  /\ name \in {"ANOMALY", "FORECAST"} => pl_deep_log[k][3] >= 2
                  => /\ k < Len(pl_deep_log)
                     /\ pl_deep_log[k + 1][1] = "tool"
                     /\ pl_deep_log[k + 1][3] \in
                            { ToolInsight(name, strategy) : strategy \in {"none", "RFM"} }

(***************************************************************************)
(* Properties of the Planner's dossier and of its gateway calls            *)
(***************************************************************************)

\* Whether entry n of the Reasoning log opens a step's trace: the step's
\* "[Query]" entry, or an error entry that follows no "[Query]" entry.
OpensTrace(log, n) ==
    \/ log[n][1] = "query"
    \/ /\ log[n][1] = "error"
       /\ (n = 1 \/ log[n - 1][1] # "query")

\* The steps that left a trace in the Reasoning log, as positions in it.
Traces(log) == { n \in 1..Len(log) : OpensTrace(log, n) }

\* C21: every executed plan step leaves a trace in the dossier, in plan order:
\* as many traces as steps executed, the k-th trace that shows a query showing
\* the k-th executed query.  A step whose SQL the Query Gateway rejects, or
\* whose query returns no row, appends nothing, so this fails.
C21_EveryStepLeavesATrace ==
    /\ Cardinality(Traces(pl_deep_log)) = Len(ReasoningQueries)
    /\ \A n \in Traces(pl_deep_log) :
           LET k == Cardinality({ m \in Traces(pl_deep_log) : m <= n })
           IN pl_deep_log[n][1] = "query" => pl_deep_log[n][2] = ReasoningQueries[k][3]

\* The traces that are left are in plan order: the queries the log shows are a
\* subsequence of the queries executed (side property of C21).
RECURSIVE IsSubsequence(_, _)
IsSubsequence(a, b) ==
    IF a = <<>> THEN TRUE
    ELSE IF b = <<>> THEN FALSE
    ELSE IF a[1] = b[1] THEN IsSubsequence(Tail(a), Tail(b))
    ELSE IsSubsequence(a, Tail(b))

IsQueryEntry(e) == e[1] = "query"

LoggedQueriesInPlanOrder ==
    LET shown == SelectSeq(pl_deep_log, IsQueryEntry)
    IN IsSubsequence([k \in 1..Len(shown) |-> shown[k][2]],
                     [k \in 1..Len(ReasoningQueries) |-> ReasoningQueries[k][3]])

\* s without the semicolons and whitespace at its end
RECURSIVE WithoutTrailingSemicolons(_)
WithoutTrailingSemicolons(s) ==
    IF s # <<>> /\ (s[Len(s)] = ";" \/ s[Len(s)] \in Whitespace)
    THEN WithoutTrailingSemicolons(SubSeq(s, 1, Len(s) - 1)) ELSE s

\* The SQL part of a plan line with its code-fence markers and its trailing
\* semicolons removed and nothing else changed.
SqlPartTrimmed(line) ==
    WithoutTrailingSemicolons(
        RemoveAll(RemoveAll(Strip(Split(line, "|")[1]), FenceSql), Fence))

\* The plan's lines that hold a separator, in order.
StepsInOrder == SelectSeq(pl_lines, HasSeparator)

\* C22: the SQL sent to the Query Gateway for a plan step is the step's SQL
\* part with fence markers and trailing semicolons removed and nothing else
\* changed, a semicolon inside the text being preserved.  The code removes
\* every semicolon, so this fails.
C22_SentSqlKeepsInnerSemicolons ==
    \A k \in 1..Len(ReasoningQueries) :
        ReasoningQueries[k][3] = SqlPartTrimmed(StepsInOrder[k])

\* What does hold: the SQL sent is the SQL part with the fence markers and
\* every semicolon removed (side property of C22).
SentSqlHasNoSemicolon ==
    \A k \in 1..Len(ReasoningQueries) :
        /\ ~Contains(ReasoningQueries[k][3], <<";">>)
        /\ ~Contains(ReasoningQueries[k][3], Fence)
        /\ ReasoningQueries[k][3] = RemoveAll(SqlPartTrimmed(StepsInOrder[k]), <<";">>)

\* The phase a gateway call belongs to: 1 Recall, 2 Hypothesis, 3 Reasoning,
\* 4 Layout.
PhaseOf(c) ==
    IF c[1] = "sql" /\ c[2] = "recall" THEN 1
    ELSE IF c = <<"llm", "plan">> THEN 2
    ELSE IF c = <<"llm", "report">> THEN 4
    ELSE 3

IsPlanCall(c) == c = <<"llm", "plan">>

IsRecallQuery(c) == c[1] = "sql" /\ c[2] = "recall"

\* How often call c stands in calls.
TimesIn(c, calls) == Cardinality({ n \in 1..Len(calls) : calls[n] = c })

\* No KPI or chart query is run twice, the steps passed so far have run one
\* query each, in plan order, and no call of an earlier phase follows a call of
\* a later phase.
SingleAttemptsInOrder ==
    /\ \A n \in 1..Len(pl_calls) :
           IsRecallQuery(pl_calls[n]) => TimesIn(pl_calls[n], pl_calls) = 1
    /\ pl_raw_plan # None => ReasoningQueries = PlannedQueries(pl_i - 1)
    /\ pl_raw_plan = None => ReasoningQueries = <<>>
    /\ \A m, n \in 1..Len(pl_calls) :
           m < n => PhaseOf(pl_calls[m]) <= PhaseOf(pl_calls[n])

\* C23: every gateway call of a run is a single attempt and the phases run in
\* the order Recall, Hypothesis, Reasoning, Layout: no KPI or chart query runs
\* twice, each step's SQL runs exactly once, and a run that has ended has sent
\* the plan prompt exactly once and the synthesis prompt exactly once.  A run
\* that the plan call's failure ends has sent no synthesis prompt, so this
\* fails.
C23_EachCallOnceInPhaseOrder ==
    /\ SingleAttemptsInOrder
    /\ pl_pc \in {"returned", "raised"} =>
           /\ Len(SelectSeq(pl_calls, IsPlanCall)) = 1
           /\ Len(SelectSeq(pl_calls, IsReportCall)) = 1

\* What does hold: no call is made twice, the plan prompt is sent once in every
\* run that has ended, and the synthesis prompt once in every run that came to
\* Layout and never otherwise (side property of C23).
NoCallIsRepeated ==
    /\ SingleAttemptsInOrder
    /\ Len(SelectSeq(pl_calls, IsPlanCall)) <= 1
    /\ Len(SelectSeq(pl_calls, IsReportCall)) <= 1
    /\ pl_pc \in {"reasoning", "layout", "returned", "raised"} =>
           Len(SelectSeq(pl_calls, IsPlanCall)) = 1
    /\ pl_pc \in {"returned", "raised"} =>
           (Len(SelectSeq(pl_calls, IsReportCall)) = 1 <=> pl_raw_plan # None)

(***************************************************************************)
(* Properties of the Copilot's Execute phase                               *)
(***************************************************************************)

\* C24: when the Query Gateway reports an execution error for the emitted SQL,
\* the Respond prompt holds the error as its data context, and process_query
\* goes on to the Respond phase.  The code reads only the empty table the
\* gateway returns with the error, so the prompt says the query returned no
\* results.
C24_SqlErrorReachesResponder ==
    (cp_pc \in {"respond", "returned", "raised"} /\ cp_err # None) =>
        /\ cp_pc \in {"respond", "returned"}
        /\ cp_prompt.data.kind = "error"
        /\ cp_prompt.data.err = cp_err

\* What does hold: after a rejected query process_query goes on to the Respond
\* phase, with "Query returned no results." as the data context (side property
\* of C24).
SqlErrorShownAsNoResults ==
    (cp_pc \in {"respond", "returned", "raised"} /\ cp_err # None) =>
        /\ cp_pc \in {"respond", "returned"}
        /\ cp_prompt.data = [kind |-> "no_results", sql |-> <<>>, rows |-> 0, err |-> <<>>]

IsSqlCall(c) == c[1] = "sql"

\* The investigator output is SQL: it holds SELECT and no ACTION marker.
IsSqlOutput(pre) == Contains(Upper(pre), KwSelect) /\ ~Contains(pre, KwAction)

\* The investigator output names one of the two actions and is no SQL.
IsActionOutput(pre) ==
    /\ ~IsSqlOutput(pre)
    /\ (Contains(pre, KwUpdateDashboard) \/ Contains(pre, KwSummarize))

\* The calls of the three phases in their order, for an output that takes
\* nsql queries.
PhaseCalls(nsql, responded) ==
    << <<"llm", "investigator">> >>
    \o (IF nsql = 1 THEN << <<"sql", CleanSql(cp_pre)>> >> ELSE <<>>)
    \o (IF responded THEN << <<"llm", "responder">> >> ELSE <<>>)

\* C25: process_query runs Investigate, Execute, Respond in this order and
\* sends at most one SQL query to the Query Gateway: exactly one, between the
\* two language-model calls, when the investigator output is SQL, and none when
\* the output is UPDATE_DASHBOARD or SUMMARIZE.
C25_PhasesInOrderOneQuery ==
    LET nsql == Len(SelectSeq(cp_calls, IsSqlCall)) IN
    /\ nsql <= 1
    /\ cp_pc = "investigate" => cp_calls = <<>>
    /\ cp_pc \in {"execute", "raised"} => cp_calls = << <<"llm", "investigator">> >>
    /\ cp_pc \in {"respond", "returned"} =>
           /\ cp_calls = PhaseCalls(nsql, cp_pc = "returned")
           /\ IsSqlOutput(cp_pre) => nsql = 1
           /\ IsActionOutput(cp_pre) => nsql = 0
           /\ cp_action \in {"update_dashboard", "summarize"} => nsql = 0

\* A finished call whose investigator output was SQL: the one query stands
\* between the two language-model calls.
C25_SqlBetweenTheTwoCalls ==
    /\ cp_pc = "returned"
    /\ IsSqlOutput(cp_pre)
    /\ Len(cp_calls) = 3
    /\ IsSqlCall(cp_calls[2])

\* C29: the action type never reaches the responder.  For an investigator
\* output that is no SQL, whether it names UPDATE_DASHBOARD, SUMMARIZE or
\* neither, the Respond prompt is the one text fixed by query, schema,
\* configuration and focus, with an empty data context; and the value returned
\* is fixed by the responder's answer alone.
C29_ActionTypeNotInPrompt ==
    /\ (cp_pc \in {"respond", "returned"} /\ ~IsSqlOutput(cp_pre)) =>
           cp_prompt = [schema |-> "schema_metadata", config |-> "current_config",
                        focus |-> "focused_context", data |-> NoData, query |-> cp_query]
    /\ cp_pc = "returned" =>
           cp_result = <<"return", IF cp_raw = None THEN FallbackEnvelope(LlmErrorText)
                                   ELSE RespondValue(cp_raw)>>

\* A finished call classified as a dashboard update whose envelope is a text
\* answer, as the responder chose.
C29_DashboardActionTextAnswer ==
    /\ cp_pc = "returned"
    /\ cp_pre = InvUpdateDashboard
    /\ cp_action = "update_dashboard"
    /\ cp_raw = RespTextAnswer
    /\ cp_result[2][2][1] = <<KeyResponseType, <<"str", TextAnswer>>>>

(***************************************************************************)
(* Properties of StallionForecaster.generate_forecast: the model policy    *)
(***************************************************************************)

\* The cadence and season the policy states for a history of `rows` dated
\* observations.
PolicyCadence(rows) ==
    IF rows > 60 THEN [freq |-> "D", cycle |-> 7] ELSE [freq |-> "M", cycle |-> 12]

\* The model has been selected.
ModelSelected == fc_pc \in {"growth", "returned"} /\ fc_cadence # NoCadence

ShortHistoryLinearTable ==
    /\ fc_pc = "returned"
    /\ fc_data = <<2, 2>>
    /\ fc_cadence = [freq |-> "M", cycle |-> 12]
    /\ fc_model.model = "Linear Trend"
    /\ fc_result[1] = "table"

(***************************************************************************)
(* Properties of the gateway calls of the Copilot, the Segmentation Engine *)
(* and save_work                                                           *)
(***************************************************************************)

\* A step that lengthens the call log `before` into `after` adds one call, and
\* that call was not made before in the operation.
AddsOnlyNewCall(before, after) ==
    after # before =>
        /\ Len(after) = Len(before) + 1
        /\ SubSeq(after, 1, Len(before)) = before
        /\ TimesIn(after[Len(after)], before) = 0

\* No step of process_query or of the SEGMENTATION branch repeats a call, and
\* save_work calls the language model only in its first step, once.
NoCallRepeatedInStep ==
    /\ AddsOnlyNewCall(cp_calls, cp_calls')
    /\ AddsOnlyNewCall(st_calls, st_calls')
    /\ \A s \in Sessions :
           ws_calls'[s] # ws_calls[s] =>
               /\ ws_calls'[s] = Append(ws_calls[s], <<"llm", "context signature">>)
               /\ ws_pc[s] = "idle"
               /\ ws_pc'[s] = "save_read"

\* C27: every gateway call of the Copilot, of the Segmentation Engine and of
\* the workspace save is a single attempt: no step issues a call that the
\* operation has issued before, whether that call failed or not.
C27_NoCallIssuedAgain == [][NoCallRepeatedInStep]_vars

\* A finished process_query whose SQL query and whose Respond call both
\* failed: three calls were made, each once.
C27_FailedCallsNotRepeated ==
    /\ cp_pc = "returned"
    /\ cp_err # None
    /\ cp_raw = None
    /\ cp_calls = << <<"llm", "investigator">>, <<"sql", CleanSql(cp_pre)>>,
                     <<"llm", "responder">> >>

\* A save whose language-model call failed: one call, and the default summary
\* in the record about to be written.
SaveCallFailedOnce ==
    /\ ws_pc[1] = "save_write"
    /\ ws_calls[1] = << <<"llm", "context signature">> >>
    /\ ws_local[1].record[2].config # NoConfig
    /\ ws_local[1].record[2].context_signature.automated_summary = NoSummary

\* A strategy call that failed: one call, no strategy, the branch decided.
StrategyCallFailedOnce ==
    /\ st_pc = "log"
    /\ st_calls = << <<"llm", "strategy">> >>
    /\ st_response = None

(***************************************************************************)
(* Frame of generate_enterprise_report                                     *)
(***************************************************************************)

\* C28: generate_enterprise_report modifies neither the dashboard
\* configuration it is given nor the session's active filters: no step of a
\* run, in any phase and whatever its outcome, changes the configuration's KPI
\* and chart lists or the filter mapping.
C28_ConfigAndFiltersUnchanged ==
    [][/\ pl_config' = pl_config
       /\ pl_config'.kpi_cards = pl_config.kpi_cards
       /\ pl_config'.charts = pl_config.charts
       /\ pp_filters' = pp_filters]_vars

\* A run that failed after auditing a KPI card and a chart, in a session with
\* a filter set: card, chart and filter are in place.
C28_FailedRunKeepsConfig ==
    /\ pp_pc = "error"
    /\ Len(pp_recall) = 2
    /\ Len(pl_config.kpi_cards) = 1
    /\ Len(pl_config.charts) = 1
    /\ pp_filters = [c \in {"region"} |-> "West"]

\* The same for a run that returned its report.
ReturnedRunKeepsConfig ==
    /\ pp_pc = "rerun"
    /\ Len(pp_recall) = 2
    /\ Len(pl_config.kpi_cards) = 1
    /\ Len(pl_config.charts) = 1
    /\ pp_filters = [c \in {"region"} |-> "West"]

(***************************************************************************)
(* Properties of the workspace store's keys and of delete_work             *)
(***************************************************************************)

\* delete_work has returned in session s and no later call has started.
DeleteReturned(s) == ws_pc[s] = "idle" /\ ws_ret[s].op = "delete"

\* C30: after any calls of save_work and delete_work by one session, every key
\* of the store is the id of the record under it, and that id is the record's
\* name in lower case with "_" for each space; delete_work of an absent id
\* returns False and leaves the store as it was, and delete_work of a present
\* id removes that record and no other.
C30_KeysAreIdsDeleteExact ==
    /\ \A k \in DOMAIN ws_file :
           /\ ws_file[k].id = k
           /\ ws_file[k].id = SpacesToUnderscores(Lower(ws_file[k].name))
    /\ DeleteReturned(1) =>
           LET before == ws_hist.before[1]
               work_id == ws_ret[1].arg
           IN /\ ws_ret[1].value = (work_id \in DOMAIN before)
              /\ ~ws_ret[1].value => ws_file = before
              /\ ws_ret[1].value =>
                     /\ DOMAIN ws_file = DOMAIN before \ {work_id}
                     /\ \A k \in DOMAIN ws_file : ws_file[k] = before[k]

\* "Q3 Sales" was saved next to the earlier record, and delete_work removed one
\* of the two: the other is still stored under its id.
C30_DeletedOneOfTwo ==
    /\ DeleteReturned(1)
    /\ ws_ret[1].value
    /\ Cardinality(DOMAIN ws_hist.before[1]) = 2
    /\ Cardinality(DOMAIN ws_file) = 1

\* delete_work of an id the store does not hold returned False.
DeleteOfAbsentId ==
    /\ DeleteReturned(1)
    /\ ~ws_ret[1].value
    /\ DOMAIN ws_file # {}

\* A record saved under the name "Q3 Sales" is stored under "q3_sales".
SavedUnderLowercasedId ==
    /\ NameQ3SalesId \in DOMAIN ws_file
    /\ ws_file[NameQ3SalesId].name = NameQ3Sales

====
